---- MODULE Spec2Model ----
(***************************************************************************)
(* Verification model of jeeves-runner: the scheduler / run controller     *)
(* (src/src/scheduler/scheduler.ts) and the queue engine of the job client *)
(* (src/src/client/queue-ops.ts).                                          *)
(***************************************************************************)
EXTENDS Integers, Sequences, FiniteSets, TLC

(***************************************************************************)
(* Bounds of the model.                                                    *)
(***************************************************************************)
\* number of run rows the runs table may receive
MaxRuns == 3
\* config.maxConcurrency of the scheduler under analysis
maxConcurrency == 2

JobIds == {"a", "b"}
NULL == "NULL"

\* clock ticks (of 8 hours) in one UTC day
DayLen == 3

\* Date.prototype.toISOString: 'YYYY-MM-DDTHH:MM:SS.sssZ'
toISOString(t) == [date |-> t \div DayLen, sep |-> "T", time |-> t % DayLen]

\* SQLite datetime(): 'YYYY-MM-DD HH:MM:SS'
datetime(t) == [date |-> t \div DayLen, sep |-> " ", time |-> t % DayLen]

\* a > b on TEXT values (BINARY collation): the date digits first, then the
\* separator character ('T' is 0x54, ' ' is 0x20), then the time digits
TextGreater(a, b) ==
    \/ a.date > b.date
    \/ a.date = b.date /\ a.sep = "T" /\ b.sep = " "
    \/ a.date = b.date /\ a.sep = b.sep /\ a.time > b.time

OverlapPolicies == {"skip", "queue", "allow"}
JobTypes == {"script", "session"}
ExecStatuses == {"ok", "error", "timeout"}

\* the columns of a jobs row that runJob and onScheduledRun read;
\* on_success / on_failure hold "is a channel set"
JobRow == [overlap_policy : OverlapPolicies, type : JobTypes,
           on_success : BOOLEAN, on_failure : BOOLEAN]

VARIABLES
    jobs,          \* jobs table: job id -> JobRow
    gatewayClient, \* deps.gatewayClient is configured
    runningJobs,   \* the scheduler's Set<string> of running job ids
    runs,          \* runs table: run id (rowid) -> row
    calls,         \* the runJob invocation that opened each run row
    last           \* the last step of the scheduler; for a fire or a
                   \* trigger, the job and the outcome of the call

schedVars == <<jobs, gatewayClient, runningJobs, runs, calls, last>>

VARIABLES
    queues,        \* queues table: queue id -> definition (defined queues only)
    items,         \* queue_items table: item id (rowid) -> row
    now,           \* the value of datetime('now')
    qlast,         \* the last call made on the queue client and its result
    dequeued,      \* per item: how many times a dequeue call returned it
    failCalls      \* per item: how many fail calls were made on it

queueVars == <<queues, items, now, qlast, dequeued, failCalls>>

VARIABLES
    tx,            \* per client connection: the dequeue or enqueue call in
                   \* progress
    writeLock      \* the connection that holds the database write lock

txVars == <<tx, writeLock>>

VARIABLES
    crons,               \* the registry's Map of job id -> Cron handle
    cronSchedules,       \* the registry's Map of job id -> schedule
    failedRegistrations, \* the registry's Set of job ids
    live,                \* the Cron handles created and not stopped
    reconciled,          \* the value the last reconcile() call returned
    reconcileInterval,   \* whether the reconcile timer is set
    stopCalled           \* whether stop() has been called

regVars == <<crons, cronSchedules, failedRegistrations, live, reconciled,
             reconcileInterval, stopCalled>>

VARIABLES
    state,         \* state table: key -> row (one namespace)
    slast,         \* the last call made on the state operations, its result
    lastSet        \* per key: the most recent setState call

stateVars == <<state, slast, lastSet>>

VARIABLES
    store,          \* the schema objects and the rows of the database file
    schema_version, \* schema_version table: the version rows in insert order
    mig             \* the runMigrations call in progress and the last outcome

migVars == <<store, schema_version, mig>>

VARIABLES
    proc,          \* the child process of the executeJob call and its timer
    promise,       \* the promise executeJob returned: <<>> or <<result>>
    stdout,        \* everything the child has written to stdout
    stdoutBuffer   \* the RingBuffer of stdout lines

execVars == <<proc, promise, stdout, stdoutBuffer>>

VARIABLES
    session,        \* the executeSession call: position, options, clock
    gatewayLog,     \* the gateway calls made and their outcomes, in order
    sessionResult   \* what executeSession returned: <<>> or <<result>>

sessVars == <<session, gatewayLog, sessionResult>>

VARIABLES
    state_items,    \* state_items table: <<key, item_key>> -> row
    clast,          \* the last call made on the collection operations
    sweep           \* the last maintenance sweep: <<>> or <<its parity and
                    \* whether it threw>>

collVars == <<state_items, clast>>

maintVars == <<sweep>>

VARIABLES
    notified,          \* the notifications start() has dispatched, in order
    defaultOnFailure,  \* config.notifications.defaultOnFailure is set
    stopper,           \* the stop() call: position, polls slept, the size
                       \* check of its last poll
    interval,          \* the maintenance controller's interval: <<>> (null)
                       \* or <<timer>>
    timers             \* the interval timers the maintenance controller has
                       \* set: whether each is still live

timerVars == <<interval, timers>>

lifeVars == <<notified, defaultOnFailure, stopper, timerVars>>

otherVars == <<execVars, sessVars, collVars, maintVars>>

restVars == <<otherVars, lifeVars>>

coreVars == <<schedVars, queueVars, txVars, regVars, stateVars, migVars>>

vars == <<jobs, gatewayClient, runningJobs, runs, calls, last,
          queues, items, now, qlast, dequeued, failCalls, tx, writeLock,
          crons, cronSchedules, failedRegistrations, live, reconciled,
          reconcileInterval, stopCalled,
          state, slast, lastSet, store, schema_version, mig,
          proc, promise, stdout, stdoutBuffer,
          session, gatewayLog, sessionResult,
          state_items, clast, sweep,
          notified, defaultOnFailure, stopper, interval, timers>>

----------------------------------------------------------------------------
(***************************************************************************)
(* Scheduler                                                                *)
(***************************************************************************)

\* error: the promise handed to the caller of the operation is rejected
NoCall == [op |-> "none", job |-> NULL, outcome |-> "none", error |-> FALSE]

\* current: no row of the jobs table has changed since the call returned
NoReconcile == [totalEnabled |-> 0, failedIds |-> <<>>, current |-> FALSE]

\* createCronRegistry: empty maps and an empty failed set
EmptyRegistry ==
    /\ crons = <<>>
    /\ cronSchedules = <<>>
    /\ failedRegistrations = {}
    /\ live = {}
    /\ reconciled = NoReconcile
    /\ reconcileInterval = FALSE
    /\ stopCalled = FALSE

\* the column defaults of the jobs table: type 'script', overlap_policy
\* 'skip', no notification channels
DefaultJobRow == [overlap_policy |-> "skip", type |-> "script",
                  on_success |-> FALSE, on_failure |-> FALSE]

\* job "a" ranges over every row, job "b" keeps the column defaults
InitSched ==
    /\ jobs \in {f \in [JobIds -> JobRow] : f["b"] = DefaultJobRow}
    /\ gatewayClient \in BOOLEAN
    /\ runningJobs = {}
    /\ runs = <<>>
    /\ calls = <<>>
    /\ last = NoCall
    /\ EmptyRegistry

\* createRun: INSERT INTO runs (job_id, status, started_at, trigger) VALUES
\* (?, 'running', datetime('now'), ?)
createRun(rs, jobId, trigger) ==
    Append(rs, [job_id |-> jobId, status |-> "running",
                started_at |-> datetime(now), trigger |-> trigger])

\* finishRun addressing the rows by job instead of by run id
finishRun_ByJob(rs, runId, status) ==
    [r \in DOMAIN rs |->
        IF rs[r].job_id = rs[runId].job_id
        THEN [rs[r] EXCEPT !.status = status] ELSE rs[r]]

\* finishRun: UPDATE runs SET status = ? ... WHERE id = ?
finishRun(rs, runId, status) ==
    [r \in DOMAIN rs |->
        IF r = runId THEN [rs[r] EXCEPT !.status = status] ELSE rs[r]]

\* runJob line 107: the concurrency check
CapReached == Cardinality(runningJobs) >= maxConcurrency

\* onScheduledRun awaits runJob(job, 'schedule').catch(...) with no handler
\* that rethrows
Caught_Never(op) == FALSE

\* whether the caller of runJob catches and logs its rejection:
\* onScheduledRun does, triggerJob returns the promise as it is
Caught(op) == op = "fire"

\* runJob up to its first await: admission, runningJobs.add, createRun and
\* the routing on job type.  A session job without gateway client throws
\* inside the try block before any await, so the finally block runs in the
\* same step.
RunJob(j, job, trigger, op) ==
    IF CapReached
    THEN /\ last' = [op |-> op, job |-> j, outcome |-> "rejected",
                     error |-> ~Caught(op)]
         /\ UNCHANGED <<runningJobs, runs, calls>>
    ELSE /\ runs' = createRun(runs, j, trigger)
         /\ IF job.type = "session" /\ ~gatewayClient
            THEN /\ runningJobs' = runningJobs \ {j}
                 /\ calls' = Append(calls, [pc |-> "threw", job |-> job,
                                            result |-> NULL, sent |-> <<>>])
                 /\ last' = [op |-> op, job |-> j, outcome |-> "threw",
                             error |-> ~Caught(op)]
            ELSE /\ runningJobs' = runningJobs \cup {j}
                 /\ calls' = Append(calls, [pc |-> "exec", job |-> job,
                                            result |-> NULL, sent |-> <<>>])
                 /\ last' = [op |-> op, job |-> j, outcome |-> "started",
                             error |-> FALSE]

\* runJob called with the stored row of job j
RunJobStart(j, trigger, op) == RunJob(j, jobs[j], trigger, op)

\* onScheduledRun(job) for the row the caller passes: the overlap check,
\* then runJob(job, 'schedule') with its error caught and logged
ScheduledRun(j, job) ==
    IF j \in runningJobs /\ job.overlap_policy \in {"skip", "queue"}
    THEN /\ last' = [op |-> "fire", job |-> j, outcome |-> "skipped",
                     error |-> FALSE]
         /\ UNCHANGED <<runningJobs, runs, calls>>
    ELSE RunJob(j, job, "schedule", "fire")

\* onScheduledRun(job): the overlap check, then runJob(job, 'schedule') with
\* its error caught and logged
OnScheduledRun(j) ==
    /\ Len(runs) < MaxRuns
    /\ ScheduledRun(j, jobs[j])
    /\ UNCHANGED <<jobs, gatewayClient, queueVars, txVars, regVars, stateVars, migVars, restVars>>

\* triggerJob(jobId): lookup, then runJob(job, 'manual')
TriggerJob(j) ==
    /\ Len(runs) < MaxRuns
    /\ IF j \notin JobIds
       THEN /\ last' = [op |-> "trigger", job |-> j, outcome |-> "notfound",
                         error |-> TRUE]
            /\ UNCHANGED <<runningJobs, runs, calls>>
       ELSE RunJobStart(j, "manual", "trigger")
    /\ UNCHANGED <<jobs, gatewayClient, queueVars, txVars, regVars, stateVars, migVars, restVars>>

\* the notifier call runJob makes after finishRun, as a sequence of the
\* notifications sent: failure for every status other than 'ok'
NotificationFor_IgnoresChannel(job, status) ==
    IF status = "ok" /\ job.on_success THEN <<"success">>
    ELSE IF status # "ok" THEN <<"failure">>
    ELSE <<>>

\* the notifier call runJob makes after finishRun, as a sequence of the
\* notifications sent: notifySuccess, else notifyFailure, else none
NotificationFor(job, status) ==
    IF status = "ok" /\ job.on_success THEN <<"success">>
    ELSE IF status # "ok" /\ job.on_failure THEN <<"failure">>
    ELSE <<>>

\* how the notifier's promise settles
Settlements == {"resolved", "rejected"}

\* the executor's promise resolves: finishRun, then either the await of the
\* notifier or return with the finally block
ExecutorDone(r, status) ==
    /\ r \in DOMAIN calls
    /\ calls[r].pc = "exec"
    /\ runs' = finishRun(runs, r, status)
    /\ IF NotificationFor(calls[r].job, status) # <<>>
       THEN /\ calls' = [calls EXCEPT
                            ![r].pc = "notify", ![r].result = status,
                            ![r].sent = @ \o NotificationFor(calls[r].job,
                                                             status)]
            /\ UNCHANGED runningJobs
       ELSE /\ calls' = [calls EXCEPT ![r].pc = "returned", ![r].result = status]
            /\ runningJobs' = runningJobs \ {runs[r].job_id}
    /\ last' = [op |-> "executed", job |-> NULL, outcome |-> "none",
                error |-> FALSE]
    /\ UNCHANGED <<jobs, gatewayClient, queueVars, txVars, regVars, stateVars, migVars, restVars>>

\* the notifier's promise settles (a rejection is caught and logged): return
\* result, then the finally block
NotifyDone(r, settled) ==
    /\ r \in DOMAIN calls
    /\ calls[r].pc = "notify"
    /\ calls' = [calls EXCEPT ![r].pc = "returned"]
    /\ runningJobs' = runningJobs \ {runs[r].job_id}
    /\ last' = [op |-> "notified", job |-> NULL, outcome |-> settled,
                error |-> FALSE]
    /\ UNCHANGED <<jobs, gatewayClient, runs, queueVars, txVars, regVars, stateVars, migVars, restVars>>

----------------------------------------------------------------------------
(***************************************************************************)
(* Cron registry                                                            *)
(***************************************************************************)

Schedules == {"s1", "s2", "bad"}
Scripts == {"v1", "v2"}

\* new Cron(schedule, callback) throws when the schedule does not parse
Valid(schedule) == schedule # "bad"

\* the order in which SELECT * FROM jobs returns the rows
JobOrder == <<"a", "b">>

\* a stored jobs row: the column defaults plus enabled, schedule and script
StoredJob(enabled, schedule, script) ==
    [overlap_policy |-> "skip", type |-> "script", on_success |-> FALSE,
     on_failure |-> FALSE, enabled |-> enabled, schedule |-> schedule,
     script |-> script]

Range(f) == {f[x] : x \in DOMAIN f}
Put(f, k, v) == [x \in DOMAIN f \cup {k} |-> IF x = k THEN v ELSE f[x]]
Drop(f, k) == [x \in DOMAIN f \ {k} |-> f[x]]

\* the Cron object registerCron creates: its callback closes over jobId and
\* the job row passed to registerCron
Handle(j, job) == [id |-> j, job |-> job]

\* the registry's state as one record, with the number of Cron handles a
\* call has created (new Cron) and stopped (cron.stop())
Registry ==
    [crons |-> crons, cronSchedules |-> cronSchedules,
     failedRegistrations |-> failedRegistrations, live |-> live,
     made |-> 0, stopped |-> 0]

\* registerCron leaving the id in the failed set on success
registerCron_KeepsFailed(reg, j, job) ==
    IF Valid(job.schedule)
    THEN [reg |-> [reg EXCEPT
                     !.crons = Put(@, j, Handle(j, job)),
                     !.cronSchedules = Put(@, j, job.schedule),
                     !.live = @ \cup {Handle(j, job)},
                     !.made = @ + 1],
          ok |-> TRUE]
    ELSE [reg |-> [reg EXCEPT !.failedRegistrations = @ \cup {j}],
          ok |-> FALSE]

\* registerCron(job): the registry after the call and the value returned
registerCron(reg, j, job) ==
    IF Valid(job.schedule)
    THEN [reg |-> [reg EXCEPT
                     !.crons = Put(@, j, Handle(j, job)),
                     !.cronSchedules = Put(@, j, job.schedule),
                     !.failedRegistrations = @ \ {j},
                     !.live = @ \cup {Handle(j, job)},
                     !.made = @ + 1],
          ok |-> TRUE]
    ELSE [reg |-> [reg EXCEPT !.failedRegistrations = @ \cup {j}],
          ok |-> FALSE]

\* cron.stop(); crons.delete(jobId); cronSchedules.delete(jobId)
StopAndDelete(reg, j) ==
    [reg EXCEPT !.live = @ \ {reg.crons[j]},
                !.stopped = @ + 1,
                !.crons = Drop(@, j),
                !.cronSchedules = Drop(@, j)]

\* SELECT * FROM jobs WHERE enabled = 1, keyed by id
enabledById == {j \in DOMAIN jobs : jobs[j].enabled}

\* reconcile, first loop: remove disabled / deleted jobs
RECURSIVE RemoveLoop(_, _)
RemoveLoop(reg, ids) ==
    IF ids = {} THEN reg
    ELSE LET j == CHOOSE x \in ids : TRUE
         IN  RemoveLoop(IF j \notin enabledById THEN StopAndDelete(reg, j)
                        ELSE reg,
                        ids \ {j})

\* every registered job is taken to have a new schedule
ScheduleChanged_Always(existingSchedule, job) == TRUE

\* a schedule edit that reconcile never notices
ScheduleChanged_Never(existingSchedule, job) == FALSE

\* existingSchedule !== job.schedule
ScheduleChanged(existingSchedule, job) == existingSchedule # job.schedule

\* reconcile, second loop: add or update enabled jobs; st holds the registry
\* and failedIds, k the position in enabledJobs
RECURSIVE AddLoop(_, _)
AddLoop(st, k) ==
    IF k > Len(JobOrder) THEN st
    ELSE LET j == JobOrder[k]
             reg == st.reg
         IN  IF j \notin enabledById THEN AddLoop(st, k + 1)
             ELSE IF j \notin DOMAIN reg.crons
             THEN LET r == registerCron(reg, j, jobs[j])
                  IN  AddLoop([reg |-> r.reg,
                               failedIds |-> IF r.ok THEN st.failedIds
                                             ELSE Append(st.failedIds, j)],
                              k + 1)
             ELSE IF ScheduleChanged(reg.cronSchedules[j], jobs[j])
             THEN LET r == registerCron(StopAndDelete(reg, j), j, jobs[j])
                  IN  AddLoop([reg |-> r.reg,
                               failedIds |-> IF r.ok THEN st.failedIds
                                             ELSE Append(st.failedIds, j)],
                              k + 1)
             ELSE AddLoop(st, k + 1)

\* cronRegistry.reconcile()
reconcile ==
    LET st == AddLoop([reg |-> RemoveLoop(Registry, DOMAIN crons),
                       failedIds |-> <<>>], 1)
    IN  /\ crons' = st.reg.crons
        /\ cronSchedules' = st.reg.cronSchedules
        /\ failedRegistrations' = st.reg.failedRegistrations
        /\ live' = st.reg.live
        /\ reconciled' = [totalEnabled |-> Cardinality(enabledById),
                          failedIds |-> st.failedIds, current |-> TRUE]

\* reconcileNow()
Reconcile ==
    /\ reconcile
    /\ UNCHANGED <<reconcileInterval, stopCalled, schedVars, queueVars,
                   txVars, stateVars, migVars, restVars>>

\* the summary dispatched whether a default failure channel is configured
\* or not
StartupNotice_AnyChannel(result) ==
    IF Len(result.failedIds) > 0
    THEN <<[jobName |-> "jeeves-runner",
            ok |-> result.totalEnabled - Len(result.failedIds),
            total |-> result.totalEnabled,
            failed |-> result.failedIds]>>
    ELSE <<>>

\* the summary start() hands to notifier.notifyFailure: none when no
\* registration failed or no default failure channel is configured
StartupNotice(result) ==
    IF Len(result.failedIds) > 0 /\ defaultOnFailure
    THEN <<[jobName |-> "jeeves-runner",
            ok |-> result.totalEnabled - Len(result.failedIds),
            total |-> result.totalEnabled,
            failed |-> result.failedIds]>>
    ELSE <<>>

\* start(): reconcile, the summary failure notification, then the
\* reconcile timer is set
Start ==
    /\ ~stopCalled
    /\ ~reconcileInterval
    /\ reconcile
    /\ notified' = notified \o StartupNotice(reconciled')
    /\ reconcileInterval' = TRUE
    /\ UNCHANGED <<stopCalled, schedVars, queueVars, txVars, stateVars,
                   migVars, otherVars, defaultOnFailure, stopper,
                   timerVars>>

\* the reconcile timer fires
IntervalReconcile ==
    /\ reconcileInterval
    /\ reconcile
    /\ UNCHANGED <<reconcileInterval, stopCalled, schedVars, queueVars,
                   txVars, stateVars, migVars, restVars>>

\* config.shutdownGraceMs, in poll periods of 100 ms
GracePolls == 2

NoStop == [pc |-> "idle", polls |-> 0, empty |-> FALSE]

\* the head of the wait loop that leaves only when no job is running
StopCheck_WaitsForJobs(polls) ==
    IF runningJobs # {}
    THEN [pc |-> "waiting", polls |-> polls, empty |-> FALSE]
    ELSE [pc |-> "returned", polls |-> polls, empty |-> runningJobs = {}]

\* the head of the wait loop of stop() after polls periods: sleep another
\* period while jobs are running and the deadline has not come, return
\* otherwise
StopCheck(polls) ==
    IF runningJobs # {} /\ polls < GracePolls
    THEN [pc |-> "waiting", polls |-> polls, empty |-> FALSE]
    ELSE [pc |-> "returned", polls |-> polls, empty |-> runningJobs = {}]

\* stop() up to its first await: clearInterval, then stopAll stops every
\* handle of crons and clears both maps, then the wait loop is entered; no
\* signal goes to the executors
Stop ==
    /\ reconcileInterval' = FALSE
    /\ live' = live \ Range(crons)
    /\ crons' = <<>>
    /\ cronSchedules' = <<>>
    /\ stopCalled' = TRUE
    /\ stopper' = StopCheck(0)
    /\ UNCHANGED <<failedRegistrations, reconciled, schedVars, queueVars,
                   txVars, stateVars, migVars, otherVars, notified,
                   defaultOnFailure, timerVars>>

\* the 100 ms timer of the wait loop fires
StopPoll ==
    /\ stopper.pc = "waiting"
    /\ stopper' = StopCheck(stopper.polls + 1)
    /\ UNCHANGED <<notified, defaultOnFailure, timerVars, coreVars,
                   otherVars>>

\* the cron callback using the row its closure holds
CurrentJob_Closure(h) == <<h.job>>

\* the cron callback reading the row whether enabled or not
CurrentJob_AnyRow(h) ==
    IF h.id \in DOMAIN jobs THEN <<jobs[h.id]>> ELSE <<>>

\* the cron callback's SELECT * FROM jobs WHERE id = ? AND enabled = 1:
\* <<row>> or <<>> (undefined)
CurrentJob(h) ==
    IF h.id \in DOMAIN jobs /\ jobs[h.id].enabled
    THEN <<jobs[h.id]>> ELSE <<>>

\* a Cron handle that has not been stopped fires
CronFire(h) ==
    /\ h \in live
    /\ Len(runs) < MaxRuns
    /\ LET currentJob == CurrentJob(h)
       IN  IF currentJob = <<>>
           THEN /\ last' = [op |-> "fire", job |-> h.id, outcome |-> "norow",
                            error |-> FALSE]
                /\ UNCHANGED <<runningJobs, runs, calls>>
           ELSE ScheduledRun(h.id, currentJob[1])
    /\ UNCHANGED <<jobs, gatewayClient, queueVars, txVars, regVars, stateVars, migVars, restVars>>

\* a change of the jobs table makes the last reconcile result out of date
TableChanged ==
    /\ reconciled' = [reconciled EXCEPT !.current = FALSE]
    /\ UNCHANGED <<gatewayClient, runningJobs, runs, calls, last, crons,
                   cronSchedules, failedRegistrations, live,
                   reconcileInterval, stopCalled, queueVars,
                   txVars, stateVars, migVars, restVars>>

\* INSERT INTO jobs (enabled defaults to 1)
InsertJob(j, schedule, script) ==
    /\ j \notin DOMAIN jobs
    /\ jobs' = Put(jobs, j, StoredJob(TRUE, schedule, script))
    /\ TableChanged

\* UPDATE jobs SET enabled = ? WHERE id = ?
SetEnabled(j, enabled) ==
    /\ j \in DOMAIN jobs
    /\ jobs' = [jobs EXCEPT ![j].enabled = enabled]
    /\ TableChanged

\* POST /jobs/:id/enable and POST /jobs/:id/disable: the UPDATE, then 404
\* when no row changed, {ok: true} otherwise
EnableRoute(j, enabled) ==
    /\ last' = [op |-> IF enabled THEN "enable" ELSE "disable", job |-> j,
                outcome |-> IF j \in DOMAIN jobs THEN "ok" ELSE "notfound",
                error |-> FALSE]
    /\ IF j \in DOMAIN jobs
       THEN /\ jobs' = [jobs EXCEPT ![j].enabled = enabled]
            /\ reconciled' = [reconciled EXCEPT !.current = FALSE]
       ELSE UNCHANGED <<jobs, reconciled>>
    /\ UNCHANGED <<gatewayClient, runningJobs, runs, calls, crons,
                   cronSchedules, failedRegistrations, live,
                   reconcileInterval, stopCalled, queueVars,
                   txVars, stateVars, migVars, restVars>>

\* UPDATE jobs SET schedule = ? WHERE id = ?
SetSchedule(j, schedule) ==
    /\ j \in DOMAIN jobs
    /\ jobs' = [jobs EXCEPT ![j].schedule = schedule]
    /\ TableChanged

\* UPDATE jobs SET script = ? WHERE id = ?
SetScript(j, script) ==
    /\ j \in DOMAIN jobs
    /\ jobs' = [jobs EXCEPT ![j].script = script]
    /\ TableChanged

\* DELETE FROM jobs WHERE id = ?; runs.job_id references jobs(id) and
\* foreign keys are on, so a job with run rows cannot be deleted
DeleteJob(j) ==
    /\ j \in DOMAIN jobs
    /\ \A r \in DOMAIN runs : runs[r].job_id # j
    /\ jobs' = Drop(jobs, j)
    /\ TableChanged

\* the scheduler before start(), over a given jobs table
InitRegistry(table) ==
    /\ jobs = table
    /\ gatewayClient = FALSE
    /\ runningJobs = {}
    /\ runs = <<>>
    /\ calls = <<>>
    /\ last = NoCall
    /\ EmptyRegistry

\* Registry specification: the jobs table starts empty and is edited
\* between reconcile calls
RegistryNext ==
    \/ \E j \in JobIds, sc \in Schedules : InsertJob(j, sc, "v1")
    \/ \E j \in JobIds, e \in BOOLEAN : SetEnabled(j, e)
    \/ \E j \in JobIds, sc \in Schedules : SetSchedule(j, sc)
    \/ \E j \in JobIds : DeleteJob(j)
    \/ Reconcile

\* Fire specification: both jobs are stored enabled with schedule s1 and
\* script v1; their rows are edited while registered handles fire
FireNext ==
    \/ Reconcile
    \/ \E j \in JobIds, e \in BOOLEAN : SetEnabled(j, e)
    \/ \E j \in JobIds, v \in Scripts : SetScript(j, v)
    \/ \E j \in JobIds : DeleteJob(j)
    \/ \E j \in JobIds, v \in Scripts :
           CronFire(Handle(j, StoredJob(TRUE, "s1", v)))
    \/ \E r \in 1..MaxRuns : ExecutorDone(r, "ok")

\* Stop specification: both jobs are stored enabled; the scheduler is
\* started, reconciled by its timer and by reconcileNow, and stopped, while
\* jobs are enabled and disabled, handles fire and runs finish
StopNext ==
    \/ Start
    \/ IntervalReconcile
    \/ Reconcile
    \/ Stop
    \/ \E j \in JobIds, e \in BOOLEAN : SetEnabled(j, e)
    \/ \E j \in JobIds :
           CronFire(Handle(j, StoredJob(TRUE, "s1", "v1")))
    \/ \E r \in 1..MaxRuns : ExecutorDone(r, "ok")

\* Api specification: both jobs are stored enabled; the scheduler is
\* started and reconciled by its timer, schedules are edited, and once the
\* scheduler has started (the server listens after start()) enable and
\* disable requests arrive
ApiNext ==
    \/ Start
    \/ IntervalReconcile
    \/ /\ reconcileInterval
       /\ \E j \in JobIds \cup {"missing"}, e \in BOOLEAN : EnableRoute(j, e)
    \/ \E j \in JobIds, sc \in Schedules : SetSchedule(j, sc)

\* the scheduler is not running (queue specifications)
IdleSched ==
    /\ jobs = [j \in JobIds |-> DefaultJobRow]
    /\ gatewayClient = FALSE
    /\ runningJobs = {}
    /\ runs = <<>>
    /\ calls = <<>>
    /\ last = NoCall
    /\ EmptyRegistry

----------------------------------------------------------------------------
(***************************************************************************)
(* Queue engine                                                             *)
(***************************************************************************)

\* number of rows the queue_items table may receive (retry specification)
MaxItems == 1
\* number of rows the queue_items table may receive (dedup specification)
MaxDedupItems == 2
\* number of fail calls counted per item
MaxFails == 2

QueueIds == {"q", "other"}
NoTime == -1
NoId == 0
Absent == [type |-> "undefined", text |-> ""]
Str(s) == [type |-> "string", text |-> s]
Num(s) == [type |-> "number", text |-> s]

\* a payload is an object with an optional threadId member
Payload(v) == [threadId |-> v]

\* JSONPath({path: '$.threadId', json: payload}): the array of matches
JSONPath(expr, payload) ==
    IF payload.threadId = Absent THEN <<>> ELSE <<payload.threadId>>

\* String(x) of a JSON string or number
String(x) == x.text

\* JavaScript truthiness of a string | null
Truthy(s) == s # NULL /\ s # ""

NoQCall == [op |-> "none", queue |-> NULL, payload |-> Payload(Absent),
            count |-> 0, id |-> NoId, ids |-> <<>>, error |-> NULL]

\* the queue_items rows enqueue looks for: same queue, same dedup_key, status
\* in the scope's filter
statusFilter(dedupScope) ==
    IF dedupScope = "pending"
    THEN {"pending", "processing"}
    ELSE {"pending", "processing", "done"}

existing(q, dedupKey, dedupScope) ==
    \E i \in DOMAIN items :
        /\ items[i].queue_id = q
        /\ items[i].dedup_key = dedupKey
        /\ items[i].status \in statusFilter(dedupScope)

\* dedupKey as enqueue computes it (lines 61-77)
DedupKeyOf(q, payload) ==
    IF q \in DOMAIN queues /\ Truthy(queues[q].dedup_expr)
    THEN LET result == JSONPath(queues[q].dedup_expr, payload)
         IN  IF Len(result) > 0 THEN String(result[1]) ELSE NULL
    ELSE NULL

\* enqueue(queue, payload, options); an option is <<>> (undefined) or <<v>>
Enqueue(q, payload, optPriority, optMaxAttempts) ==
    LET priority == IF optPriority = <<>> THEN 0 ELSE optPriority[1]
        hasDef == q \in DOMAIN queues
        maxAttempts == IF optMaxAttempts # <<>> THEN optMaxAttempts[1]
                       ELSE IF hasDef THEN queues[q].max_attempts
                       ELSE 1
        dedupKey == DedupKeyOf(q, payload)
        dedupScope == IF hasDef /\ Truthy(queues[q].dedup_scope)
                      THEN queues[q].dedup_scope ELSE "pending"
        duplicate == /\ hasDef
                     /\ Truthy(queues[q].dedup_expr)
                     /\ Truthy(dedupKey)
                     /\ existing(q, dedupKey, dedupScope)
        row == [queue_id |-> q, payload |-> payload, status |-> "pending",
                priority |-> priority, attempts |-> 0,
                max_attempts |-> maxAttempts, dedup_key |-> dedupKey,
                error |-> NULL, created_at |-> now, claimed_at |-> NoTime,
                finished_at |-> NoTime]
    IN  /\ IF duplicate
           THEN /\ qlast' = [NoQCall EXCEPT !.op = "enqueue", !.queue = q,
                                            !.payload = payload, !.id = -1]
                /\ UNCHANGED <<items, dequeued, failCalls>>
           ELSE /\ items' = Append(items, row)
                /\ dequeued' = Append(dequeued, 0)
                /\ failCalls' = Append(failCalls, 0)
                /\ qlast' = [NoQCall EXCEPT !.op = "enqueue", !.queue = q,
                                            !.payload = payload,
                                            !.id = Len(items) + 1]
        /\ UNCHANGED <<queues, now, schedVars, txVars, regVars, stateVars, migVars, restVars>>

\* enqueue while the queue_items table holds fewer than limit rows
BoundedEnqueue(limit, q, payload, optPriority, optMaxAttempts) ==
    /\ Len(items) < limit
    /\ Enqueue(q, payload, optPriority, optMaxAttempts)

\* ORDER BY priority, created_at: the lowest priority first
Before_PriorityAscending(its, i, k) ==
    \/ its[i].priority < its[k].priority
    \/ /\ its[i].priority = its[k].priority
       /\ \/ its[i].created_at < its[k].created_at
          \/ its[i].created_at = its[k].created_at /\ i <= k

\* ORDER BY priority DESC, created_at; rows that tie come out in rowid order
\* (the order of idx_queue_items_poll)
Before(its, i, k) ==
    \/ its[i].priority > its[k].priority
    \/ /\ its[i].priority = its[k].priority
       /\ \/ its[i].created_at < its[k].created_at
          \/ its[i].created_at = its[k].created_at /\ i <= k

RECURSIVE Ordered(_, _, _)
Ordered(its, S, n) ==
    IF n <= 0 \/ S = {} THEN <<>>
    ELSE LET m == CHOOSE i \in S : \A k \in S : Before(its, i, k)
         IN  <<m>> \o Ordered(its, S \ {m}, n - 1)

\* the SELECT without its queue_id = ? condition
SelectPending_AnyQueue(its, q, count) ==
    LET S == {i \in DOMAIN its : its[i].status = "pending"}
    IN  Ordered(its, S, IF count < 0 THEN Cardinality(S) ELSE count)

\* SELECT id FROM queue_items WHERE queue_id = ? AND status = 'pending'
\* ORDER BY priority DESC, created_at LIMIT ?; a negative LIMIT is no limit
SelectPending(its, q, count) ==
    LET S == {i \in DOMAIN its :
                 its[i].queue_id = q /\ its[i].status = "pending"}
    IN  Ordered(its, S, IF count < 0 THEN Cardinality(S) ELSE count)


\* UPDATE queue_items SET status = 'processing', claimed_at = datetime('now'),
\* attempts = attempts + 1 WHERE id = ?
Claim(row, t) ==
    [row EXCEPT !.status = "processing", !.claimed_at = t,
                !.attempts = @ + 1]

\* dequeue(queue, count) on a connection that no other connection writes to:
\* BEGIN, SELECT, one UPDATE per row, COMMIT
Dequeue(q, count) ==
    LET rows == SelectPending(items, q, count)
    IN  /\ items' = [i \in DOMAIN items |->
                        IF i \in Range(rows) THEN Claim(items[i], now)
                        ELSE items[i]]
        /\ dequeued' = [i \in DOMAIN dequeued |->
                        IF i \in Range(rows) THEN dequeued[i] + 1
                        ELSE dequeued[i]]
        /\ qlast' = [NoQCall EXCEPT !.op = "dequeue", !.queue = q,
                                    !.count = count, !.ids = rows]
        /\ UNCHANGED <<queues, now, failCalls, schedVars, txVars, regVars, stateVars, migVars, restVars>>

\* done(queueItemId)
Done(id) ==
    /\ items' = [i \in DOMAIN items |->
                    IF i = id
                    THEN [items[i] EXCEPT !.status = "done",
                                          !.finished_at = now]
                    ELSE items[i]]
    /\ qlast' = [NoQCall EXCEPT !.op = "done", !.id = id]
    /\ UNCHANGED <<queues, now, dequeued, failCalls, schedVars, txVars, regVars, stateVars, migVars, restVars>>

\* the fail calls made on an item are counted up to MaxFails
CountFail(id) ==
    /\ id \in DOMAIN items => failCalls[id] < MaxFails
    /\ failCalls' = IF id \in DOMAIN items
                    THEN [failCalls EXCEPT ![id] = @ + 1]
                    ELSE failCalls

\* fail retrying while attempts <= max_attempts
Fail_OffByOne(id, error) ==
    /\ IF id \notin DOMAIN items
       THEN UNCHANGED items
       ELSE IF items[id].attempts <= items[id].max_attempts
            THEN items' = [items EXCEPT ![id].status = "pending",
                                        ![id].error = error]
            ELSE items' = [items EXCEPT ![id].status = "failed",
                                        ![id].finished_at = now,
                                        ![id].error = error]
    /\ qlast' = [NoQCall EXCEPT !.op = "fail", !.id = id, !.error = error]
    /\ CountFail(id)
    /\ UNCHANGED <<queues, now, dequeued, schedVars, txVars, regVars, stateVars, migVars, restVars>>

\* fail counting the attempt itself
Fail_CountsAttempt(id, error) ==
    /\ IF id \notin DOMAIN items
       THEN UNCHANGED items
       ELSE IF items[id].attempts + 1 < items[id].max_attempts
            THEN items' = [items EXCEPT ![id].status = "pending",
                                        ![id].attempts = @ + 1,
                                        ![id].error = error]
            ELSE items' = [items EXCEPT ![id].status = "failed",
                                        ![id].attempts = @ + 1,
                                        ![id].finished_at = now,
                                        ![id].error = error]
    /\ qlast' = [NoQCall EXCEPT !.op = "fail", !.id = id, !.error = error]
    /\ CountFail(id)
    /\ UNCHANGED <<queues, now, dequeued, schedVars, txVars, regVars, stateVars, migVars, restVars>>

\* fail(queueItemId, error); error is NULL when the argument is omitted
Fail(id, error) ==
    /\ IF id \notin DOMAIN items
       THEN UNCHANGED items
       ELSE IF items[id].attempts < items[id].max_attempts
            THEN items' = [items EXCEPT ![id].status = "pending",
                                        ![id].error = error]
            ELSE items' = [items EXCEPT ![id].status = "failed",
                                        ![id].finished_at = now,
                                        ![id].error = error]
    /\ qlast' = [NoQCall EXCEPT !.op = "fail", !.id = id, !.error = error]
    /\ CountFail(id)
    /\ UNCHANGED <<queues, now, dequeued, schedVars, txVars, regVars, stateVars, migVars, restVars>>

\* a queue definition row
QueueDef(expr, scope, maxAttempts) ==
    [dedup_expr |-> expr, dedup_scope |-> scope, max_attempts |-> maxAttempts,
     retention_days |-> <<7>>]

EmptyQueueItems ==
    /\ items = <<>>
    /\ now = 0
    /\ qlast = NoQCall
    /\ dequeued = <<>>
    /\ failCalls = <<>>

\* no queue client is running (scheduler specification)
IdleQueue ==
    /\ queues = <<>>
    /\ EmptyQueueItems

Errors == {NULL, "e1"}
ItemIds == 1..(MaxItems + 1)

\* Retry specification: queue "q" is undefined or defined without dedup and
\* with max_attempts 1 or 2; maxAttempts is omitted, 0 or 2
InitQueue ==
    /\ queues \in {<<>>} \cup
                  {[x \in {"q"} |-> QueueDef(NULL, NULL, m)] : m \in {1, 2}}
    /\ EmptyQueueItems

QueueNext ==
    \/ \E p \in {<<>>, <<1>>}, m \in {<<>>, <<0>>, <<2>>} :
           BoundedEnqueue(MaxItems, "q", Payload(Absent), p, m)
    \/ \E n \in 1..2 : Dequeue("q", n)
    \/ \E id \in ItemIds : Done(id)
    \/ \E id \in ItemIds, e \in Errors : Fail(id, e)

\* Dedup specification: both queues are defined with dedup_expr
\* '$.threadId', max_attempts 1 and the same dedup_scope (NULL, 'pending'
\* or 'all'); payloads differ in their threadId member
Payloads == {Payload(Absent), Payload(Str("")), Payload(Str("t1")),
             Payload(Str("7")), Payload(Num("7"))}

InitDedup ==
    /\ queues \in {[x \in QueueIds |-> QueueDef("$.threadId", sc, 1)] :
                       sc \in {NULL, "pending", "all"}}
    /\ EmptyQueueItems

DedupItemIds == 1..(MaxDedupItems + 1)

DedupNext ==
    \/ \E q \in QueueIds, p \in Payloads :
           BoundedEnqueue(MaxDedupItems, q, p, <<>>, <<>>)
    \/ \E q \in QueueIds : Dequeue(q, 1)
    \/ \E id \in DedupItemIds : Done(id)
    \/ \E id \in DedupItemIds : Fail(id, NULL)

\* number of rows the queue_items table may receive (order specification)
MaxOrderItems == 3
\* number of seconds the clock may advance
MaxTime == 1

\* a second passes: datetime('now') moves on
Tick ==
    /\ now < MaxTime
    /\ now' = now + 1
    /\ UNCHANGED <<queues, items, qlast, dequeued, failCalls, schedVars,
                   txVars, regVars, stateVars, migVars, restVars>>

\* Order specification: items of two undefined queues are enqueued with
\* priority 0 (omitted) or 1 while the clock advances; count ranges over
\* -1 .. 2
InitOrder ==
    /\ queues = <<>>
    /\ EmptyQueueItems

OrderNext ==
    \/ \E q \in QueueIds, p \in {<<>>, <<1>>} :
           BoundedEnqueue(MaxOrderItems, q, Payload(Absent), p, <<>>)
    \/ Tick
    \/ \E q \in QueueIds, n \in -1..2 : Dequeue(q, n)

----------------------------------------------------------------------------
(***************************************************************************)
(* dequeue called concurrently on several connections to the same store.    *)
(* Every client opens its own connection (createClient); the store is in    *)
(* WAL mode, a transaction opened by BEGIN reads from the snapshot taken by *)
(* its first SELECT, and its first write fails with SQLITE_BUSY when        *)
(* another connection holds the write lock or has committed since the       *)
(* snapshot was taken.                                                      *)
(***************************************************************************)

\* number of pending rows in the store when the clients start
MaxTxItems == 3

Clients == {"c1", "c2"}
NoClient == "none"

IdleCall == [pc |-> "idle", count |-> 0, rows |-> <<>>, k |-> 0,
             stale |-> FALSE]

IdleTx ==
    /\ tx = [c \in Clients |-> IdleCall]
    /\ writeLock = NoClient

\* a pending row as enqueue inserts it into an undefined queue
PendingRow(priority) ==
    [queue_id |-> "q", payload |-> Payload(Absent), status |-> "pending",
     priority |-> priority, attempts |-> 0, max_attempts |-> 1,
     dedup_key |-> NULL, error |-> NULL, created_at |-> 0,
     claimed_at |-> NoTime, finished_at |-> NoTime]

\* the rows the store holds when the clients start: pending rows of queue
\* "q", a pending row of another queue and a row already done
TxRows ==
    {PendingRow(p) : p \in {0, 1}}
      \cup {[PendingRow(0) EXCEPT !.queue_id = "other"],
             [PendingRow(0) EXCEPT !.status = "done", !.attempts = 1,
                                   !.claimed_at = 0, !.finished_at = 0]}

InitTx ==
    /\ queues = <<>>
    /\ \E n \in 0..MaxTxItems : items \in [1..n -> TxRows]
    /\ now = 0
    /\ qlast = NoQCall
    /\ dequeued = [i \in DOMAIN items |-> 0]
    /\ failCalls = [i \in DOMAIN items |-> 0]
    /\ IdleTx

\* db.exec('BEGIN')
TxBegin(c, count) ==
    /\ tx[c].pc = "idle"
    /\ tx' = [tx EXCEPT ![c] = [IdleCall EXCEPT !.pc = "begun",
                                                !.count = count]]
    /\ UNCHANGED <<writeLock, queueVars, schedVars, regVars, stateVars, migVars, restVars>>

\* the SELECT of the rows to claim; it takes the transaction's snapshot
TxSelect(c) ==
    /\ tx[c].pc = "begun"
    /\ tx' = [tx EXCEPT ![c].pc = "selected",
                        ![c].rows = SelectPending(items, "q", tx[c].count)]
    /\ UNCHANGED <<writeLock, queueVars, schedVars, regVars, stateVars, migVars, restVars>>

\* the statements run outside a transaction: no write ever conflicts
WriteConflict_NoTransaction(c) == FALSE

\* the first write of the transaction cannot get the write lock
WriteConflict(c) ==
    \/ writeLock \notin {NoClient, c}
    \/ tx[c].stale

\* updateStmt.run(row.id) for the next row; an error is caught, answered by
\* ROLLBACK and thrown to the caller
TxUpdate(c) ==
    /\ tx[c].pc = "selected"
    /\ tx[c].k < Len(tx[c].rows)
    /\ IF WriteConflict(c)
       THEN /\ tx' = [tx EXCEPT ![c] = IdleCall]
            /\ writeLock' = IF writeLock = c THEN NoClient ELSE writeLock
            /\ qlast' = [NoQCall EXCEPT !.op = "dequeue-error", !.queue = "q",
                                        !.count = tx[c].count]
       ELSE /\ tx' = [tx EXCEPT ![c].k = @ + 1]
            /\ writeLock' = c
            /\ UNCHANGED qlast
    /\ UNCHANGED <<queues, items, now, dequeued, failCalls, schedVars, regVars, stateVars, migVars, restVars>>

\* db.exec('COMMIT') and the return of the claimed rows
TxCommit(c) ==
    /\ tx[c].pc = "selected"
    /\ tx[c].k = Len(tx[c].rows)
    /\ items' = [i \in DOMAIN items |->
                    IF i \in Range(tx[c].rows) THEN Claim(items[i], now)
                    ELSE items[i]]
    /\ dequeued' = [i \in DOMAIN dequeued |->
                    IF i \in Range(tx[c].rows) THEN dequeued[i] + 1
                    ELSE dequeued[i]]
    /\ tx' = [d \in Clients |->
                 IF d = c THEN IdleCall
                 ELSE IF tx[d].pc = "selected" /\ tx[c].k > 0
                      THEN [tx[d] EXCEPT !.stale = TRUE]
                      ELSE tx[d]]
    /\ writeLock' = IF writeLock = c THEN NoClient ELSE writeLock
    /\ qlast' = [NoQCall EXCEPT !.op = "dequeue", !.queue = "q",
                                !.count = tx[c].count, !.ids = tx[c].rows]
    /\ UNCHANGED <<queues, now, failCalls, schedVars, regVars, stateVars, migVars, restVars>>

\* enqueue by the client c up to its INSERT: the SELECT of the queue
\* definition, the dedup key and the SELECT that looks for a duplicate, each
\* statement run by itself outside any transaction; a duplicate returns -1
EnqueueLookup(c, q, payload) ==
    LET hasDef == q \in DOMAIN queues
        dedupKey == DedupKeyOf(q, payload)
        dedupScope == IF hasDef /\ Truthy(queues[q].dedup_scope)
                      THEN queues[q].dedup_scope ELSE "pending"
        duplicate == /\ hasDef
                     /\ Truthy(queues[q].dedup_expr)
                     /\ Truthy(dedupKey)
                     /\ existing(q, dedupKey, dedupScope)
        row == [queue_id |-> q, payload |-> payload, status |-> "pending",
                priority |-> 0, attempts |-> 0,
                max_attempts |-> IF hasDef THEN queues[q].max_attempts
                                 ELSE 1,
                dedup_key |-> dedupKey,
                error |-> NULL, created_at |-> now, claimed_at |-> NoTime,
                finished_at |-> NoTime]
    IN  /\ tx[c].pc = "idle"
        /\ Len(items) + Cardinality({d \in Clients : tx[d].pc = "insert"})
               < MaxDedupItems
        /\ IF duplicate
           THEN /\ qlast' = [NoQCall EXCEPT !.op = "enqueue", !.queue = q,
                                            !.payload = payload, !.id = -1]
                /\ UNCHANGED tx
           ELSE /\ tx' = [tx EXCEPT ![c] = [pc |-> "insert", row |-> row]]
                /\ UNCHANGED qlast
        /\ UNCHANGED <<queues, items, now, dequeued, failCalls, writeLock,
                       schedVars, regVars, stateVars, migVars, restVars>>

\* the INSERT of enqueue by the client c and the return of the new id; the
\* row's created_at is the time of the INSERT
EnqueueInsert(c) ==
    /\ tx[c].pc = "insert"
    /\ items' = Append(items, [tx[c].row EXCEPT !.created_at = now])
    /\ dequeued' = Append(dequeued, 0)
    /\ failCalls' = Append(failCalls, 0)
    /\ qlast' = [NoQCall EXCEPT !.op = "enqueue",
                                !.queue = tx[c].row.queue_id,
                                !.payload = tx[c].row.payload,
                                !.id = Len(items) + 1]
    /\ tx' = [tx EXCEPT ![c] = IdleCall]
    /\ UNCHANGED <<queues, now, writeLock, schedVars, regVars, stateVars,
                   migVars, restVars>>

\* Client specification: the clients of one store enqueue into the queues
\* of the dedup specification, each statement of a call a step of its own;
\* items are claimed, completed and failed
ClientNext ==
    \/ \E c \in Clients, q \in QueueIds,
          p \in {Payload(Str("")), Payload(Str("t1"))} :
           EnqueueLookup(c, q, p)
    \/ \E c \in Clients : EnqueueInsert(c)
    \/ \E q \in QueueIds : Dequeue(q, 1)
    \/ \E id \in DedupItemIds : Done(id)
    \/ \E id \in DedupItemIds : Fail(id, NULL)

TxNext ==
    \/ \E c \in Clients, n \in 1..2 : TxBegin(c, n)
    \/ \E c \in Clients : TxSelect(c)
    \/ \E c \in Clients : TxUpdate(c)
    \/ \E c \in Clients : TxCommit(c)

----------------------------------------------------------------------------
\* State operations (scalar key-value state with optional TTL)

\* number of ticks the clock of the state specification may advance
MaxStateTime == 4

StateKeys == {"k"}
StateValues == {"v1", "v2"}
\* ttl option: '8h', '1d', the empty string and a malformed string
Ttls == {"8h", "1d", "", "soon"}

\* /^(\d+)([dhm])$/
TtlFormat(ttl) == ttl \in {"8h", "1d"}

\* the offset of a well-formed ttl, in ticks
TtlTicks(ttl) == CASE ttl = "8h" -> 1
                   [] ttl = "1d" -> DayLen

parseTtl(ttl, t) == toISOString(t + TtlTicks(ttl))

NoStateCall == [op |-> "none", key |-> NULL, result |-> NULL]

EmptyState ==
    /\ state = <<>>
    /\ slast = NoStateCall
    /\ lastSet = <<>>

\* SELECT value FROM state WHERE ... AND (expires_at IS NULL OR
\* expires_at > datetime('now')); row?.value ?? null
StateValue(k) ==
    IF /\ k \in DOMAIN state
       /\ \/ state[k].expires_at = <<>>
          \/ TextGreater(state[k].expires_at[1], datetime(now))
    THEN state[k].value
    ELSE NULL

getState(k) ==
    /\ slast' = [op |-> "get", key |-> k, result |-> StateValue(k)]
    /\ UNCHANGED <<state, lastSet, now>>
    /\ UNCHANGED <<queues, items, qlast, dequeued, failCalls,
                   schedVars, txVars, regVars, migVars, restVars>>

\* INSERT ... ON CONFLICT DO UPDATE SET value, expires_at, updated_at
Upsert(k, value, expiresAt) ==
    Put(state, k, [value |-> value, expires_at |-> <<expiresAt>>])

\* the upsert without expires_at: a new row has expires_at NULL, an
\* existing row keeps its expires_at
UpsertValue(k, value) ==
    IF k \in DOMAIN state
    THEN [state EXCEPT ![k].value = value]
    ELSE Put(state, k, [value |-> value, expires_at |-> <<>>])

\* setState(namespace, key, value, options): opt is <<>> when options.ttl
\* is omitted, <<ttl>> otherwise
setState(k, value, opt) ==
    LET hasTtl == opt # <<>> /\ opt[1] # "" IN
    /\ UNCHANGED now
    /\ UNCHANGED <<queues, items, qlast, dequeued, failCalls,
                   schedVars, txVars, regVars, migVars, restVars>>
    /\ IF hasTtl /\ ~TtlFormat(opt[1])
       THEN /\ slast' = [op |-> "set", key |-> k, result |-> "throws"]
            /\ UNCHANGED <<state, lastSet>>
       ELSE /\ state' = IF hasTtl
                        THEN Upsert(k, value, parseTtl(opt[1], now))
                        ELSE UpsertValue(k, value)
            /\ slast' = [op |-> "set", key |-> k, result |-> NULL]
            /\ lastSet' = Put(lastSet, k,
                              [value |-> value, ttl |-> opt,
                               expiry |-> IF hasTtl
                                          THEN now + TtlTicks(opt[1])
                                          ELSE NoTime])

\* eight hours pass
StateTick ==
    /\ now < MaxStateTime
    /\ now' = now + 1
    /\ UNCHANGED <<state, slast, lastSet>>
    /\ UNCHANGED <<queues, items, qlast, dequeued, failCalls,
                   schedVars, txVars, regVars, migVars, restVars>>

StateNext ==
    \/ \E k \in StateKeys, v \in StateValues :
           \E opt \in {<<>>} \cup {<<t>> : t \in Ttls} : setState(k, v, opt)
    \/ \E k \in StateKeys : getState(k)
    \/ StateTick

----------------------------------------------------------------------------
\* Schema migrations

\* times the script of one version is counted as executed to its end
MaxApplied == 2

Versions == {1, 2, 3}

\* the statements of the migration scripts
CreateTable(n, cols, ine) ==
    [op |-> "createTable", n |-> n, t |-> n, cols |-> cols, ine |-> ine]
CreateIndex(n, t, cols, ine) ==
    [op |-> "createIndex", n |-> n, t |-> t, cols |-> cols, ine |-> ine]
DropIndexIfExists(n) ==
    [op |-> "dropIndex", n |-> n, t |-> n, cols |-> {}, ine |-> TRUE]
RenameTable(a, b) ==
    [op |-> "rename", n |-> b, t |-> a, cols |-> {}, ine |-> FALSE]
AddColumn(t, c) ==
    [op |-> "addColumn", n |-> t, t |-> t, cols |-> {c}, ine |-> FALSE]
DropColumn(t, c) ==
    [op |-> "dropColumn", n |-> t, t |-> t, cols |-> {c}, ine |-> FALSE]
UpdateSet(t, cols) ==
    [op |-> "update", n |-> t, t |-> t, cols |-> cols, ine |-> FALSE]
InsertRows(t, cols) ==
    [op |-> "insert", n |-> t, t |-> t, cols |-> cols, ine |-> FALSE]

\* ids of the queue definitions the second migration inserts
Seeds == {"email-updates", "email-pending", "x-posts", "gh-collabs"}

MIGRATION_001 == <<
    CreateTable("jobs", {"id"}, TRUE),
    CreateTable("runs", {"job_id", "started_at", "status"}, TRUE),
    CreateIndex("idx_runs_job_started", "runs", {"job_id", "started_at"},
                TRUE),
    CreateIndex("idx_runs_status", "runs", {"status"}, TRUE),
    CreateTable("cursors", {"namespace", "key", "expires_at"}, TRUE),
    CreateIndex("idx_cursors_expires", "cursors", {"expires_at"}, TRUE),
    CreateTable("queues", {"id", "queue", "status"}, TRUE),
    CreateIndex("idx_queues_poll", "queues", {"queue", "status"}, TRUE) >>

MIGRATION_002 == <<
    DropIndexIfExists("idx_queues_poll"),
    RenameTable("queues", "queue_items"),
    CreateTable("queues", {"id", "dedup_expr"}, FALSE),
    AddColumn("queue_items", "queue_id"),
    AddColumn("queue_items", "dedup_key"),
    UpdateSet("queue_items", {"queue_id", "queue"}),
    DropColumn("queue_items", "queue"),
    CreateIndex("idx_queue_items_dedup", "queue_items",
                {"queue_id", "dedup_key", "status"}, FALSE),
    CreateIndex("idx_queue_items_poll", "queue_items",
                {"queue_id", "status"}, FALSE),
    InsertRows("queues", {"id", "dedup_expr"}) >>

MIGRATION_003 == <<
    RenameTable("cursors", "state"),
    DropIndexIfExists("idx_cursors_expires"),
    CreateIndex("idx_state_expires", "state", {"expires_at"}, FALSE),
    CreateTable("state_items", {"namespace", "key"}, FALSE),
    CreateIndex("idx_state_items_ns_key", "state_items",
                {"namespace", "key"}, FALSE) >>

MIGRATIONS == <<MIGRATION_001, MIGRATION_002, MIGRATION_003>>

Table(cols) == [type |-> "table", tbl |-> NULL, cols |-> cols]
Index(t, cols) == [type |-> "index", tbl |-> t, cols |-> cols]

IsTable(objs, t) == t \in DOMAIN objs /\ objs[t].type = "table"

EmptyStore == [objs |-> <<>>, rows |-> {}]

\* whether SQLite executes the statement on the store without an error
Executes(st, s) ==
    LET objs == st.objs IN
    CASE s.op = "createTable" -> s.ine \/ s.n \notin DOMAIN objs
      [] s.op = "createIndex" ->
             \/ s.ine /\ s.n \in DOMAIN objs
             \/ /\ s.n \notin DOMAIN objs
                /\ IsTable(objs, s.t)
                /\ s.cols \subseteq objs[s.t].cols
      [] s.op = "dropIndex" -> TRUE
      [] s.op = "rename" -> IsTable(objs, s.t) /\ s.n \notin DOMAIN objs
      [] s.op = "addColumn" ->
             IsTable(objs, s.t) /\ s.cols \cap objs[s.t].cols = {}
      [] s.op = "dropColumn" ->
             /\ IsTable(objs, s.t)
             /\ s.cols \subseteq objs[s.t].cols
             /\ \A i \in DOMAIN objs :
                    objs[i].type = "index" /\ objs[i].tbl = s.t
                        => objs[i].cols \cap s.cols = {}
      [] s.op = "update" ->
             IsTable(objs, s.t) /\ s.cols \subseteq objs[s.t].cols
      [] s.op = "insert" ->
             /\ IsTable(objs, s.t)
             /\ s.cols \subseteq objs[s.t].cols
             /\ \A id \in Seeds : <<s.t, id>> \notin st.rows

\* the store after a statement that executes
Effect(st, s) ==
    LET objs == st.objs IN
    CASE s.op = "createTable" ->
             IF s.n \in DOMAIN objs THEN st
             ELSE [st EXCEPT !.objs = Put(objs, s.n, Table(s.cols))]
      [] s.op = "createIndex" ->
             IF s.n \in DOMAIN objs THEN st
             ELSE [st EXCEPT !.objs = Put(objs, s.n, Index(s.t, s.cols))]
      [] s.op = "dropIndex" ->
             IF s.n \in DOMAIN objs /\ objs[s.n].type = "index"
             THEN [st EXCEPT !.objs = Drop(objs, s.n)]
             ELSE st
      [] s.op = "rename" ->
             [objs |-> [x \in (DOMAIN objs \ {s.t}) \cup {s.n} |->
                           IF x = s.n THEN objs[s.t]
                           ELSE IF objs[x].tbl = s.t
                                THEN [objs[x] EXCEPT !.tbl = s.n]
                                ELSE objs[x]],
              rows |-> {IF r[1] = s.t THEN <<s.n, r[2]>> ELSE r :
                            r \in st.rows}]
      [] s.op = "addColumn" ->
             [st EXCEPT !.objs[s.t].cols = @ \cup s.cols]
      [] s.op = "dropColumn" ->
             [st EXCEPT !.objs[s.t].cols = @ \ s.cols]
      [] s.op = "update" -> st
      [] s.op = "insert" ->
             [st EXCEPT !.rows = @ \cup {<<s.t, id>> : id \in Seeds}]

\* db.exec(script) on a database no other statement interleaves with
RECURSIVE RunScript(_, _, _)
RunScript(st, script, i) ==
    IF i > Len(script) \/ ~Executes(st, script[i]) THEN st
    ELSE RunScript(Effect(st, script[i]), script, i + 1)

NoMigration == [pc |-> "idle", version |-> 0, stmt |-> 0,
                outcome |-> "none", applied |-> <<>>,
                executed |-> [v \in Versions |-> 0]]

IdleMig ==
    /\ store = EmptyStore
    /\ schema_version = <<>>
    /\ mig = NoMigration

\* SELECT MIN(version) FROM schema_version; version ?? 0
currentVersion_Min ==
    IF schema_version = <<>> THEN 0
    ELSE CHOOSE v \in Range(schema_version) :
             \A w \in Range(schema_version) : v <= w

\* SELECT MAX(version) FROM schema_version; version ?? 0
currentVersion ==
    IF schema_version = <<>> THEN 0
    ELSE CHOOSE v \in Range(schema_version) :
             \A w \in Range(schema_version) : w <= v

\* the versions above v, ascending (MIGRATIONS is indexed 1, 2, 3)
pendingVersions(v) == {w \in Versions : w > v}

Lowest(S) == CHOOSE v \in S : \A w \in S : v <= w

\* runMigrations is entered: the schema_version table is created when
\* missing, the current version is read, the pending versions are listed
MigStart ==
    /\ mig.pc = "idle"
    /\ mig' = IF pendingVersions(currentVersion) = {}
              THEN [mig EXCEPT !.outcome = "returned", !.applied = <<>>]
              ELSE [mig EXCEPT !.pc = "exec",
                               !.version =
                                   Lowest(pendingVersions(currentVersion)),
                               !.stmt = 1,
                               !.outcome = "none",
                               !.applied = <<>>]
    /\ UNCHANGED <<store, schema_version>>
    /\ UNCHANGED <<schedVars, queueVars, txVars, regVars, stateVars, restVars>>

\* db.exec(MIGRATIONS[version]) runs the next statement of the script in
\* autocommit mode; an error ends the call, the statements before it stay
MigExec ==
    LET script == MIGRATIONS[mig.version]
        s == script[mig.stmt] IN
    /\ mig.pc = "exec"
    /\ IF Executes(store, s)
       THEN /\ store' = Effect(store, s)
            /\ mig' = IF mig.stmt < Len(script)
                      THEN [mig EXCEPT !.stmt = @ + 1]
                      ELSE [mig EXCEPT
                                !.pc = "record",
                                !.executed[mig.version] =
                                    IF @ < MaxApplied THEN @ + 1 ELSE @]
       ELSE /\ store' = store
            /\ mig' = [mig EXCEPT !.pc = "idle", !.outcome = "threw"]
    /\ UNCHANGED schema_version
    /\ UNCHANGED <<schedVars, queueVars, txVars, regVars, stateVars, restVars>>

\* INSERT INTO schema_version (version) VALUES (?), then the next pending
\* version or the return
MigRecord ==
    /\ mig.pc = "record"
    /\ schema_version' = Append(schema_version, mig.version)
    /\ mig' = IF pendingVersions(mig.version) = {}
              THEN [mig EXCEPT !.pc = "idle", !.outcome = "returned",
                               !.applied = Append(@, mig.version)]
              ELSE [mig EXCEPT !.pc = "exec",
                               !.version =
                                   Lowest(pendingVersions(mig.version)),
                               !.stmt = 1,
                               !.applied = Append(@, mig.version)]
    /\ UNCHANGED store
    /\ UNCHANGED <<schedVars, queueVars, txVars, regVars, stateVars, restVars>>

\* the process is killed while runMigrations is running
MigCrash ==
    /\ mig.pc \in {"exec", "record"}
    /\ mig' = [mig EXCEPT !.pc = "idle", !.outcome = "interrupted"]
    /\ UNCHANGED <<store, schema_version>>
    /\ UNCHANGED <<schedVars, queueVars, txVars, regVars, stateVars, restVars>>

\* a row is inserted into an existing table between two runs
InsertData(t, id) ==
    /\ mig.pc = "idle"
    /\ IsTable(store.objs, t)
    /\ store' = [store EXCEPT !.rows = @ \cup {<<t, id>>}]
    /\ UNCHANGED <<schema_version, mig>>
    /\ UNCHANGED <<schedVars, queueVars, txVars, regVars, stateVars, restVars>>

MigrationNext ==
    \/ MigStart
    \/ MigExec
    \/ MigRecord
    \/ MigCrash
    \/ InsertData("jobs", "test-job")
    \/ InsertData("cursors", "c1")

----------------------------------------------------------------------------
\* Script executor (executeJob)

\* text units a child may write (tail specification)
MaxStream == 5
\* text units a child may write (executor specification)
MaxExecStream == 2
\* new RingBuffer(100), scaled to two lines
maxLines == 2

\* the units of text a child writes: a visible character, a space, a line
\* feed, and the texts JR_RESULT:{"tokens":1,"meta":"m1"},
\* JR_RESULT:{"tokens":2,"meta":"m2"} and JR_RESULT:{oops
Units == {"x", " ", "\n", "R1", "R2", "RB"}

\* the chunks of a data event: one or two units
Chunks == {<<u>> : u \in Units} \cup {<<u, v>> : u, v \in Units}

\* exit codes of a close event: <<code>>, or <<>> (null) when a signal
\* ended the child
ExitCodes == {<<0>>, <<1>>, <<>>}

\* String.prototype.split('\n'): the lines between the line feeds, the
\* empty ones included
RECURSIVE Split(_, _, _)
Split(text, i, line) ==
    IF i > Len(text) THEN <<line>>
    ELSE IF text[i] = "\n" THEN <<line>> \o Split(text, i + 1, <<>>)
    ELSE Split(text, i + 1, Append(line, text[i]))

split(text) == Split(text, 1, <<>>)

\* String.prototype.trim()
RECURSIVE trim(_)
trim(line) ==
    IF line = <<>> THEN line
    ELSE IF Head(line) = " " THEN trim(Tail(line))
    ELSE IF line[Len(line)] = " " THEN trim(SubSeq(line, 1, Len(line) - 1))
    ELSE line

\* Array.prototype.join('\n')
RECURSIVE join(_)
join(lines) ==
    IF lines = <<>> THEN <<>>
    ELSE IF Len(lines) = 1 THEN lines[1]
    ELSE lines[1] \o <<"\n">> \o join(Tail(lines))

\* RingBuffer.append
append(lines, line) ==
    IF Len(lines) + 1 > maxLines THEN Tail(Append(lines, line))
    ELSE Append(lines, line)

\* the data handler: every non-blank line of the chunk is appended
RECURSIVE AppendLines(_, _, _)
AppendLines(buffer, lines, i) ==
    IF i > Len(lines) THEN buffer
    ELSE AppendLines(IF trim(lines[i]) # <<>> THEN append(buffer, lines[i])
                     ELSE buffer,
                     lines, i + 1)

onData(buffer, chunk) == AppendLines(buffer, split(chunk), 1)

\* tokens and meta are <<>> for null, <<value>> otherwise
NoData == [tokens |-> <<>>, meta |-> <<>>]

\* /^JR_RESULT:(.+)$/ on a trimmed line, then JSON.parse of the match:
\* <<data>> when the line is a marker line with a valid JSON suffix
ResultOf(line) ==
    IF line = <<"R1">> THEN <<[tokens |-> <<1>>, meta |-> <<"m1">>]>>
    ELSE IF line = <<"R2">> THEN <<[tokens |-> <<2>>, meta |-> <<"m2">>]>>
    ELSE <<>>

\* the loop of parseResultLines: a later occurrence overwrites
RECURSIVE ParseLoop(_, _, _)
ParseLoop(lines, i, acc) ==
    IF i > Len(lines) THEN acc
    ELSE LET data == ResultOf(trim(lines[i]))
         IN  ParseLoop(lines, i + 1, IF data = <<>> THEN acc ELSE data[1])

parseResultLines(text) == ParseLoop(split(text), 1, NoData)

NoProc == [pc |-> "none", timeoutMs |-> 0, timer |-> "none",
           timedOut |-> FALSE, spawnFailed |-> FALSE, exitCode |-> <<>>]

IdleExec ==
    /\ proc = NoProc
    /\ promise = <<>>
    /\ stdout = <<>>
    /\ stdoutBuffer = <<>>

\* resolve(result): only the first call settles the promise
Resolve(result) == IF promise = <<>> THEN <<result>> ELSE promise

\* executeJob(options) up to its return; timeoutMs 0 stands for an omitted
\* timeoutMs; when the spawn fails the child emits 'error' before any other
\* event
ExecuteJob(timeoutMs, spawned) ==
    /\ proc.pc = "none"
    /\ IF spawned
       THEN /\ proc' = [NoProc EXCEPT
                           !.pc = "running", !.timeoutMs = timeoutMs,
                           !.timer = IF timeoutMs # 0 THEN "set" ELSE "none"]
            /\ UNCHANGED promise
       ELSE /\ proc' = [NoProc EXCEPT
                           !.pc = "failed", !.timeoutMs = timeoutMs,
                           !.timer = IF timeoutMs # 0 THEN "cleared"
                                     ELSE "none",
                           !.spawnFailed = TRUE]
            /\ promise' = Resolve([status |-> "error", exitCode |-> <<>>,
                                   tokens |-> <<>>, resultMeta |-> <<>>,
                                   stdoutTail |-> join(stdoutBuffer)])
    /\ UNCHANGED <<stdout, stdoutBuffer, coreVars, sessVars, collVars, maintVars, lifeVars>>

\* child.stdout emits 'data'
Data(limit, chunk) ==
    /\ proc.pc = "running"
    /\ Len(stdout) + Len(chunk) <= limit
    /\ stdout' = stdout \o chunk
    /\ stdoutBuffer' = onData(stdoutBuffer, chunk)
    /\ UNCHANGED <<proc, promise, coreVars, sessVars, collVars, maintVars, lifeVars>>

\* the timeout timer fires: timedOut, SIGTERM
TimerFire ==
    /\ proc.timer = "set"
    /\ proc' = [proc EXCEPT !.timer = "fired", !.timedOut = TRUE]
    /\ UNCHANGED <<promise, stdout, stdoutBuffer, coreVars, sessVars, collVars, maintVars, lifeVars>>

\* the result of the close handler, the exit code tested before timedOut
CloseResult_ExitCodeFirst(exitCode) ==
    LET stdoutTail == join(stdoutBuffer)
        parsed == parseResultLines(stdoutTail)
    IN  IF exitCode = <<0>>
        THEN [status |-> "ok", exitCode |-> exitCode,
              tokens |-> parsed.tokens, resultMeta |-> parsed.meta,
              stdoutTail |-> stdoutTail]
        ELSE IF proc.timedOut
        THEN [status |-> "timeout", exitCode |-> <<>>, tokens |-> <<>>,
              resultMeta |-> <<>>, stdoutTail |-> stdoutTail]
        ELSE [status |-> "error", exitCode |-> exitCode,
              tokens |-> parsed.tokens, resultMeta |-> parsed.meta,
              stdoutTail |-> stdoutTail]

\* the result of the close handler
CloseResult(exitCode) ==
    LET stdoutTail == join(stdoutBuffer)
        parsed == parseResultLines(stdoutTail)
    IN  IF proc.timedOut
        THEN [status |-> "timeout", exitCode |-> <<>>, tokens |-> <<>>,
              resultMeta |-> <<>>, stdoutTail |-> stdoutTail]
        ELSE IF exitCode = <<0>>
        THEN [status |-> "ok", exitCode |-> exitCode,
              tokens |-> parsed.tokens, resultMeta |-> parsed.meta,
              stdoutTail |-> stdoutTail]
        ELSE [status |-> "error", exitCode |-> exitCode,
              tokens |-> parsed.tokens, resultMeta |-> parsed.meta,
              stdoutTail |-> stdoutTail]

\* the child emits 'close', also after a failed spawn: clearTimeout, then
\* resolve
Close(exitCode) ==
    /\ proc.pc \in {"running", "failed"}
    /\ proc' = [proc EXCEPT
                   !.pc = "closed",
                   !.timer = IF @ = "set" THEN "cleared" ELSE @,
                   !.exitCode = <<exitCode>>]
    /\ promise' = Resolve(CloseResult(exitCode))
    /\ UNCHANGED <<stdout, stdoutBuffer, coreVars, sessVars, collVars, maintVars, lifeVars>>

\* Executor specification: one executeJob call with timeoutMs omitted or
\* 5, a spawn that succeeds or fails, up to MaxExecStream units of output
ExecNext ==
    \/ \E t \in {0, 5}, ok \in BOOLEAN : ExecuteJob(t, ok)
    \/ \E chunk \in Chunks : Data(MaxExecStream, chunk)
    \/ TimerFire
    \/ \E c \in ExitCodes : Close(c)

\* Tail specification: one executeJob call without timeout whose child
\* writes up to MaxStream units in chunks of one or two
TailNext ==
    \/ ExecuteJob(0, TRUE)
    \/ \E chunk \in Chunks : Data(MaxStream, chunk)
    \/ Close(<<0>>)

\* Session executor (scheduler/session-executor.ts): one executeSession call
\* against a gateway whose replies are chosen by the environment.

\* largest timeoutMs of a session call, in poll intervals
MaxSessionTimeout == 2

SCRIPT_EXTENSIONS == {".js", ".mjs", ".cjs", ".ps1", ".cmd", ".bat"}

\* the script fields tried: raw prompts, prompt files and legacy scripts
SessionScripts ==
    {[ext |-> "", exists |-> FALSE],
     [ext |-> ".md", exists |-> TRUE],
     [ext |-> ".txt", exists |-> FALSE],
     [ext |-> ".JS", exists |-> TRUE]}
      \cup [ext : SCRIPT_EXTENSIONS, exists : {TRUE}]

\* String.prototype.toLowerCase on the extensions of SessionScripts
toLowerCase(ext) == IF ext = ".JS" THEN ".js" ELSE ext

\* an Error with the given message, words standing for substrings
Error(message) == [instanceofError |-> TRUE, message |-> message]

\* what a gateway call can throw: a refused connection, the request timeout
\* of httpPost, or a value that is not an Error
Thrown ==
    {Error(<<"Gateway", "connection", "refused">>),
     Error(<<"Request", "timed out">>),
     [instanceofError |-> FALSE, message |-> <<>>]}

\* String.prototype.includes, on texts made of words
includes(text, word) == \E i \in 1..Len(text) : text[i] = word

\* resolveTaskPrompt that takes every script field for a prompt
resolveTaskPrompt_AnyPrompt(script) ==
    LET ext == toLowerCase(script.ext)
    IN  IF ext \in {".md", ".txt"} /\ ~script.exists
        THEN [threw |-> <<Error(<<"Prompt", "file", "not", "found">>)>>,
              prompt |-> <<>>]
        ELSE [threw |-> <<>>, prompt |-> <<"prompt">>]

\* resolveTaskPrompt: no prompt for a script extension, the file for .md
\* and .txt (throws when missing), the raw text otherwise
resolveTaskPrompt(script) ==
    LET ext == toLowerCase(script.ext)
    IN  IF ext \in SCRIPT_EXTENSIONS
        THEN [threw |-> <<>>, prompt |-> <<>>]
        ELSE IF ext \in {".md", ".txt"} /\ ~script.exists
        THEN [threw |-> <<Error(<<"Prompt", "file", "not", "found">>)>>,
              prompt |-> <<>>]
        ELSE [threw |-> <<>>, prompt |-> <<"prompt">>]

NoSession == [pc |-> "none", script |-> [ext |-> "", exists |-> FALSE],
              timeoutMs |-> 0, elapsed |-> 0, expired |-> FALSE,
              caught |-> <<>>]

IdleSession ==
    /\ session = NoSession
    /\ gatewayLog = <<>>
    /\ sessionResult = <<>>

\* the catch block of executeSession: the result for a caught value
Catch(err) ==
    LET errorMessage == IF err.instanceofError THEN err.message
                        ELSE <<"Unknown", "session", "error">>
    IN  IF includes(errorMessage, "timed out")
        THEN [status |-> "timeout", tokens |-> <<>>, resultMeta |-> <<>>,
              stderrTail |-> errorMessage, error |-> <<errorMessage>>]
        ELSE [status |-> "error", tokens |-> <<>>, resultMeta |-> <<>>,
              stderrTail |-> errorMessage, error |-> <<errorMessage>>]

\* a value thrown inside the try block of the call s reaches the catch block
Throw(s, err, expired) ==
    /\ session' = [s EXCEPT !.pc = "done", !.caught = <<err>>,
                            !.expired = expired]
    /\ sessionResult' = <<Catch(err)>>

\* a loop head that polls once more when the time is just up
PollHead_OneMore(dt, log) ==
    LET elapsed == session.elapsed + dt
    IN  IF elapsed <= session.timeoutMs
        THEN /\ session' = [session EXCEPT !.pc = "polling",
                                           !.elapsed = elapsed]
             /\ gatewayLog' = Append(log, "isSessionComplete")
             /\ UNCHANGED sessionResult
        ELSE /\ Throw([session EXCEPT !.elapsed = elapsed],
                      Error(<<"Session", "timed out", "after">>), TRUE)
             /\ gatewayLog' = log

\* the head of the pollCompletion loop after dt more time: another
\* isSessionComplete call while the time is not up, the timeout error after
PollHead(dt, log) ==
    LET elapsed == session.elapsed + dt
    IN  IF elapsed < session.timeoutMs
        THEN /\ session' = [session EXCEPT !.pc = "polling",
                                           !.elapsed = elapsed]
             /\ gatewayLog' = Append(log, "isSessionComplete")
             /\ UNCHANGED sessionResult
        ELSE /\ Throw([session EXCEPT !.elapsed = elapsed],
                      Error(<<"Session", "timed out", "after">>), TRUE)
             /\ gatewayLog' = log

\* executeSession(options) up to its first await
ExecuteSession(script, timeoutMs) ==
    /\ session.pc = "none"
    /\ LET taskPrompt == resolveTaskPrompt(script)
           opened == [session EXCEPT !.script = script,
                                     !.timeoutMs = timeoutMs]
       IN  IF taskPrompt.threw # <<>>
           THEN /\ Throw(opened, taskPrompt.threw[1], FALSE)
                /\ UNCHANGED gatewayLog
           ELSE IF taskPrompt.prompt = <<>>
           THEN /\ Throw(opened,
                         Error(<<"Session", "job", "script", "has",
                                 "script", "extension">>), FALSE)
                /\ UNCHANGED gatewayLog
           ELSE /\ session' = [opened EXCEPT !.pc = "spawning"]
                /\ gatewayLog' = Append(gatewayLog, "spawnSession")
                /\ UNCHANGED sessionResult
    /\ UNCHANGED <<coreVars, execVars, collVars, maintVars, lifeVars>>

\* spawnSession resolves with a session key: pollCompletion starts its
\* clock and enters the loop
SpawnReturns ==
    /\ session.pc = "spawning"
    /\ PollHead(0, Append(gatewayLog, "spawnSession:ok"))
    /\ UNCHANGED <<coreVars, execVars, collVars, maintVars, lifeVars>>

\* spawnSession rejects
SpawnThrows(err) ==
    /\ session.pc = "spawning"
    /\ gatewayLog' = Append(gatewayLog, "spawnSession:throw")
    /\ Throw(session, err, FALSE)
    /\ UNCHANGED <<coreVars, execVars, collVars, maintVars, lifeVars>>

\* isSessionComplete resolves after dt: true leaves the loop and calls
\* getSessionInfo, false sleeps for the interval
IsCompleteReturns(isComplete, dt) ==
    /\ session.pc = "polling"
    /\ IF isComplete
       THEN /\ session' = [session EXCEPT !.pc = "info",
                                          !.elapsed = @ + dt]
            /\ gatewayLog' = gatewayLog \o
                   <<"isSessionComplete:true", "getSessionInfo">>
       ELSE /\ session' = [session EXCEPT !.pc = "sleeping",
                                          !.elapsed = @ + dt]
            /\ gatewayLog' = Append(gatewayLog, "isSessionComplete:false")
    /\ UNCHANGED <<sessionResult, coreVars, execVars, collVars, maintVars, lifeVars>>

\* isSessionComplete rejects
IsCompleteThrows(err) ==
    /\ session.pc = "polling"
    /\ gatewayLog' = Append(gatewayLog, "isSessionComplete:throw")
    /\ Throw(session, err, FALSE)
    /\ UNCHANGED <<coreVars, execVars, collVars, maintVars, lifeVars>>

\* the sleep between two polls ends, one interval later
Wake ==
    /\ session.pc = "sleeping"
    /\ PollHead(1, gatewayLog)
    /\ UNCHANGED <<coreVars, execVars, collVars, maintVars, lifeVars>>

\* getSessionInfo resolves with the session's info or with none
InfoReturns(sessionInfo) ==
    /\ session.pc = "info"
    /\ session' = [session EXCEPT !.pc = "done"]
    /\ gatewayLog' = Append(gatewayLog,
           IF sessionInfo = <<>> THEN "getSessionInfo:none"
           ELSE "getSessionInfo:info")
    /\ sessionResult' =
           <<[status |-> "ok",
              tokens |-> IF sessionInfo = <<>> THEN <<>>
                         ELSE sessionInfo[1].totalTokens,
              resultMeta |-> <<"sessionKey">>,
              stderrTail |-> <<>>, error |-> <<>>]>>
    /\ UNCHANGED <<coreVars, execVars, collVars, maintVars, lifeVars>>

\* getSessionInfo rejects
InfoThrows(err) ==
    /\ session.pc = "info"
    /\ gatewayLog' = Append(gatewayLog, "getSessionInfo:throw")
    /\ Throw(session, err, FALSE)
    /\ UNCHANGED <<coreVars, execVars, collVars, maintVars, lifeVars>>

\* Session specification: one executeSession call with a timeout of up to
\* MaxSessionTimeout poll intervals
SessionNext ==
    \/ \E script \in SessionScripts, t \in 0..MaxSessionTimeout :
           ExecuteSession(script, t)
    \/ SpawnReturns
    \/ \E err \in Thrown : SpawnThrows(err)
    \/ \E isComplete \in BOOLEAN, dt \in {0, 1} :
           IsCompleteReturns(isComplete, dt)
    \/ \E err \in Thrown : IsCompleteThrows(err)
    \/ Wake
    \/ \E info \in {<<>>, <<[totalTokens |-> <<1200>>]>>,
                    <<[totalTokens |-> <<>>]>>} : InfoReturns(info)
    \/ \E err \in Thrown : InfoThrows(err)

\* a gateway call in flight returns or fails
GatewayReplies ==
    \/ SpawnReturns
    \/ \E err \in Thrown : SpawnThrows(err)
    \/ \E isComplete \in BOOLEAN, dt \in {0, 1} :
           IsCompleteReturns(isComplete, dt)
    \/ \E err \in Thrown : IsCompleteThrows(err)
    \/ \E info \in {<<>>, <<[totalTokens |-> <<1200>>]>>,
                    <<[totalTokens |-> <<>>]>>} : InfoReturns(info)
    \/ \E err \in Thrown : InfoThrows(err)

\* Collection state (state_items) and the maintenance sweeps

\* number of queue_items rows of the prune specification
MaxPruneItems == 1
\* number of days the clock of the prune specification may advance
MaxPruneDays == 9

ItemKeys == {"i1", "i2"}

NoItemCall == [op |-> "none", key |-> NULL, item |-> NULL, result |-> NULL]

IdleItems ==
    /\ state_items = <<>>
    /\ clast = NoItemCall
    /\ sweep = <<>>

\* the state_items rows of the state row k
ItemsOf(its, k) == {p \in DOMAIN its : p[1] = k}

\* FOREIGN KEY (namespace, key) REFERENCES state(namespace, key), enforced
\* by PRAGMA foreign_keys = ON: a statement that would leave a state_items
\* row without its state row fails, and changes nothing
ForeignKeyFails(st, its) == \E p \in DOMAIN its : p[1] \notin DOMAIN st

\* deleteState that removes the row whatever refers to it
deleteState_Unchecked(k) ==
    /\ state' = IF k \in DOMAIN state THEN Drop(state, k) ELSE state
    /\ slast' = [op |-> "delete", key |-> k, result |-> NULL]
    /\ UNCHANGED <<lastSet, now>>
    /\ UNCHANGED <<queues, items, qlast, dequeued, failCalls,
                   schedVars, txVars, regVars, migVars, restVars>>

\* deleteState(namespace, key): DELETE FROM state WHERE namespace = ? AND
\* key = ?
deleteState(k) ==
    LET after == IF k \in DOMAIN state THEN Drop(state, k) ELSE state
    IN  /\ IF ForeignKeyFails(after, state_items)
           THEN /\ slast' = [op |-> "delete", key |-> k,
                             result |-> "throws"]
                /\ UNCHANGED state
           ELSE /\ slast' = [op |-> "delete", key |-> k, result |-> NULL]
                /\ state' = after
        /\ UNCHANGED <<lastSet, now>>
        /\ UNCHANGED <<queues, items, qlast, dequeued, failCalls,
                       schedVars, txVars, regVars, migVars, restVars>>

\* setItem(namespace, key, itemKey, value?): INSERT OR IGNORE the parent
\* state row with value NULL, then upsert the item; opt is <<>> when value
\* is omitted
setItem(k, itemKey, opt) ==
    /\ state' = IF k \in DOMAIN state THEN state
                ELSE Put(state, k, [value |-> NULL, expires_at |-> <<>>])
    /\ state_items' = Put(state_items, <<k, itemKey>>,
                          [value |-> IF opt = <<>> THEN NULL ELSE opt[1],
                           updated_at |-> now])
    /\ clast' = [op |-> "setItem", key |-> k, item |-> itemKey,
                 result |-> NULL]
    /\ UNCHANGED <<slast, lastSet, now, sweep>>
    /\ UNCHANGED <<queues, items, qlast, dequeued, failCalls,
                   schedVars, txVars, regVars, migVars, execVars, sessVars, lifeVars>>

\* deleteItem(namespace, key, itemKey)
deleteItem(k, itemKey) ==
    /\ state_items' = IF <<k, itemKey>> \in DOMAIN state_items
                      THEN Drop(state_items, <<k, itemKey>>)
                      ELSE state_items
    /\ clast' = [op |-> "deleteItem", key |-> k, item |-> itemKey,
                 result |-> NULL]
    /\ UNCHANGED <<sweep, stateVars, now>>
    /\ UNCHANGED <<queues, items, qlast, dequeued, failCalls,
                   schedVars, txVars, regVars, migVars, execVars, sessVars, lifeVars>>

\* the sets of rows SELECT rowid ... ORDER BY updated_at DESC LIMIT keepCount
\* can return: the most recently updated rows, rows that tie in any order; a
\* negative LIMIT is no limit
Kept(its, k, keepCount) ==
    LET rows == ItemsOf(its, k)
        n == IF keepCount < 0 \/ keepCount > Cardinality(rows)
             THEN Cardinality(rows) ELSE keepCount
    IN  {K \in SUBSET rows :
            /\ Cardinality(K) = n
            /\ \A a \in K, b \in rows \ K :
                   its[a].updated_at >= its[b].updated_at}

\* pruneItems(namespace, key, keepCount): delete the rows that are not kept,
\* return the number of rows deleted
pruneItems(k, keepCount) ==
    /\ \E K \in Kept(state_items, k, keepCount) :
           /\ state_items' =
                  [p \in DOMAIN state_items \ (ItemsOf(state_items, k) \ K)
                      |-> state_items[p]]
           /\ clast' = [op |-> "pruneItems", key |-> k, item |-> NULL,
                        result |-> Cardinality(ItemsOf(state_items, k) \ K)]
    /\ UNCHANGED <<sweep, stateVars, now>>
    /\ UNCHANGED <<queues, items, qlast, dequeued, failCalls,
                   schedVars, txVars, regVars, migVars, execVars, sessVars, lifeVars>>

\* pruneOldRuns(db, days): DELETE FROM runs WHERE started_at < cutoffDate,
\* the cutoff an ISO string
pruneOldRuns(rs, days, t) ==
    LET cutoffDate == toISOString(t - days * DayLen)
    IN  [r \in {x \in DOMAIN rs : ~TextGreater(cutoffDate, rs[x].started_at)}
            |-> rs[r]]

\* the rows of DELETE FROM state WHERE expires_at IS NOT NULL AND
\* expires_at < datetime('now')
ExpiredState(st, t) ==
    {k \in DOMAIN st : /\ st[k].expires_at # <<>>
                       /\ TextGreater(datetime(t), st[k].expires_at[1])}

\* cleanExpiredState(db)
cleanExpiredState(st, t) ==
    [k \in DOMAIN st \ ExpiredState(st, t) |-> st[k]]

\* COALESCE((SELECT retention_days FROM queues WHERE queues.id =
\* queue_items.queue_id), 7)
RetentionOf(qs, q) ==
    IF q \in DOMAIN qs /\ qs[q].retention_days # <<>>
    THEN qs[q].retention_days[1]
    ELSE 7

\* the rows of DELETE FROM queue_items WHERE status IN ('done', 'failed')
\* AND finished_at < datetime('now', '-' || retention || ' days'); a NULL
\* finished_at compares as NULL
OldQueueItems(its, qs, t) ==
    {i \in DOMAIN its :
        /\ its[i].status \in {"done", "failed"}
        /\ its[i].finished_at # NoTime
        /\ TextGreater(
               datetime(t - RetentionOf(qs, its[i].queue_id) * DayLen),
               datetime(its[i].finished_at))}

\* pruneOldQueueItems(db)
pruneOldQueueItems(its, qs, t) ==
    [i \in DOMAIN its \ OldQueueItems(its, qs, t) |-> its[i]]

\* runAll() of the maintenance controller, called by start, by the
\* interval timer or by runNow: pruneOldRuns, cleanExpiredState,
\* pruneOldQueueItems, one autocommitted statement each; a statement that
\* fails throws out of runAll, and the sweeps after it do not run
runAll(runRetentionDays, by) ==
    LET cleaned == cleanExpiredState(state, now)
        threw == ForeignKeyFails(cleaned, state_items)
        pruned == IF threw THEN items
                  ELSE pruneOldQueueItems(items, queues, now)
    IN  /\ runs' = pruneOldRuns(runs, runRetentionDays, now)
        /\ state' = IF threw THEN state ELSE cleaned
        /\ items' = pruned
        /\ sweep' = <<[n |-> IF sweep = <<>> THEN 0 ELSE 1 - sweep[1].n,
                       threw |-> threw, by |-> by]>>
        /\ UNCHANGED <<jobs, gatewayClient, runningJobs, calls, last,
                       queues, now, qlast, dequeued, failCalls,
                       slast, lastSet, state_items, clast,
                       txVars, regVars, migVars, execVars, sessVars>>

\* runNow()
RunAll(runRetentionDays) ==
    /\ runAll(runRetentionDays, "runNow")
    /\ UNCHANGED lifeVars

\* number of start() calls made on the maintenance controller
MaxMaintStarts == 2

\* start(): runAll(), then interval = setInterval(runAll, ...); when runAll
\* throws, start throws before the timer is set
MaintStart(runRetentionDays) ==
    /\ Len(timers) < MaxMaintStarts
    /\ runAll(runRetentionDays, "start")
    /\ IF sweep'[1].threw
       THEN UNCHANGED <<interval, timers>>
       ELSE /\ timers' = Append(timers, TRUE)
            /\ interval' = <<Len(timers) + 1>>
    /\ UNCHANGED <<notified, defaultOnFailure, stopper>>

\* stop(): if (interval) { clearInterval(interval); interval = null }
MaintStop ==
    /\ IF interval # <<>>
       THEN /\ timers' = [timers EXCEPT ![interval[1]] = FALSE]
            /\ interval' = <<>>
       ELSE UNCHANGED <<interval, timers>>
    /\ UNCHANGED <<notified, defaultOnFailure, stopper, coreVars, otherVars>>

\* an interval timer that has not been cleared fires: runAll()
MaintTimerFire(t, runRetentionDays) ==
    /\ t \in DOMAIN timers
    /\ timers[t]
    /\ runAll(runRetentionDays, "timer")
    /\ UNCHANGED lifeVars

\* Maintenance specification: the controller is started up to
\* MaxMaintStarts times, stopped and run by hand while its timers fire, a
\* state row with a ttl is set and the clock advances
MaintNext ==
    \/ MaintStart(1)
    \/ MaintStop
    \/ RunAll(1)
    \/ \E t \in 1..MaxMaintStarts : MaintTimerFire(t, 1)
    \/ setState("k", "v1", <<"8h">>)
    \/ StateTick

\* a day passes
DayTick ==
    /\ now < MaxPruneDays * DayLen
    /\ now' = now + DayLen
    /\ UNCHANGED <<queues, items, qlast, dequeued, failCalls, schedVars,
                   txVars, regVars, stateVars, migVars, restVars>>

\* Prune specification: queue "q" is defined with retention_days 1, queue
\* "other" is undefined; on the first day up to MaxPruneItems items are
\* enqueued and the state row "k" gets an item and a value with a ttl; the
\* items are claimed and finished while the clock advances by days;
\* maintenance sweeps run at any time
InitPrune ==
    /\ queues = [x \in {"q"} |->
                    [QueueDef(NULL, NULL, 1) EXCEPT !.retention_days = <<1>>]]
    /\ EmptyQueueItems

PruneNext ==
    \/ \E q \in QueueIds :
           /\ now = 0
           /\ DOMAIN items = 1..Cardinality(DOMAIN items)
           /\ BoundedEnqueue(MaxPruneItems, q, Payload(Absent), <<>>, <<>>)
    \/ \E q \in QueueIds : Dequeue(q, 1)
    \/ \E id \in 1..MaxPruneItems : Done(id)
    \/ \E id \in 1..MaxPruneItems : Fail(id, NULL)
    \/ DayTick
    \/ now = 0 /\ setItem("k", "i1", <<>>)
    \/ now = 0 /\ setState("k", "v1", <<"1d">>)
    \/ RunAll(1)

\* Item specification: state rows and their items are set, deleted and
\* pruned while the clock advances and maintenance sweeps run
ItemNext ==
    \/ \E k \in StateKeys, v \in StateValues, opt \in {<<>>, <<"8h">>} :
           setState(k, v, opt)
    \/ \E k \in StateKeys : deleteState(k)
    \/ \E k \in StateKeys, i \in ItemKeys, opt \in {<<>>, <<"v1">>} :
           setItem(k, i, opt)
    \/ \E k \in StateKeys, i \in ItemKeys : deleteItem(k, i)
    \/ \E k \in StateKeys, n \in -1..1 : pruneItems(k, n)
    \/ StateTick
    \/ RunAll(1)

\* everything but the scheduler, the queue client and the start-up
\* configuration is idle
IdleRest == EmptyState /\ IdleMig /\ IdleExec /\ IdleSession /\ IdleItems

\* no default failure channel is configured
IdleLife ==
    /\ notified = <<>>
    /\ defaultOnFailure = FALSE
    /\ stopper = NoStop
    /\ interval = <<>>
    /\ timers = <<>>

IdleStore == IdleRest /\ IdleLife

\* Shutdown specification: both jobs are stored enabled; the scheduler is
\* started and reconciled by its timer, handles fire, jobs are triggered by
\* hand and runs finish or never do; stop() is called once and its poll
\* timer keeps firing
ShutdownNext ==
    \/ Start
    \/ IntervalReconcile
    \/ stopper.pc = "idle" /\ Stop
    \/ StopPoll
    \/ \E j \in JobIds :
           CronFire(Handle(j, StoredJob(TRUE, "s1", "v1")))
    \/ \E j \in JobIds : TriggerJob(j)
    \/ \E r \in 1..MaxRuns : ExecutorDone(r, "ok")

\* Start specification: the jobs table starts empty and is edited; the
\* scheduler is started once, with or without a default failure channel,
\* reconciled by its timer and by reconcileNow, and stopped
StartNext ==
    \/ \E j \in JobIds, sc \in Schedules : InsertJob(j, sc, "v1")
    \/ \E j \in JobIds, e \in BOOLEAN : SetEnabled(j, e)
    \/ \E j \in JobIds, sc \in Schedules : SetSchedule(j, sc)
    \/ \E j \in JobIds : DeleteJob(j)
    \/ Start
    \/ IntervalReconcile
    \/ Reconcile
    \/ Stop

----------------------------------------------------------------------------
Init == InitSched /\ IdleQueue /\ IdleTx /\ IdleStore

Next ==
    \/ \E j \in JobIds : OnScheduledRun(j)
    \/ \E j \in JobIds \cup {"missing"} : TriggerJob(j)
    \/ \E r \in 1..MaxRuns, s \in ExecStatuses : ExecutorDone(r, s)
    \/ \E r \in 1..MaxRuns, s \in Settlements : NotifyDone(r, s)

Spec == Init /\ [][Next]_vars

\* the scheduler with job "a" under overlap_policy 'allow'
AllowInit == Init /\ jobs["a"].overlap_policy = "allow"

AllowSpec == AllowInit /\ [][Next]_vars

QueueInit == IdleSched /\ InitQueue /\ IdleTx /\ IdleStore

QueueSpec == QueueInit /\ [][QueueNext]_vars

DedupInit == IdleSched /\ InitDedup /\ IdleTx /\ IdleStore

DedupSpec == DedupInit /\ [][DedupNext]_vars

ClientSpec == DedupInit /\ [][ClientNext]_vars

DequeueInit == IdleSched /\ InitTx /\ IdleStore

OrderInit == IdleSched /\ InitOrder /\ IdleTx /\ IdleStore

RegistryInit == InitRegistry(<<>>) /\ IdleQueue /\ IdleTx /\ IdleStore

RegistrySpec == RegistryInit /\ [][RegistryNext]_vars

StartInit ==
    /\ InitRegistry(<<>>)
    /\ IdleQueue
    /\ IdleTx
    /\ IdleRest
    /\ notified = <<>>
    /\ defaultOnFailure \in BOOLEAN
    /\ stopper = NoStop
    /\ interval = <<>>
    /\ timers = <<>>

StartSpec == StartInit /\ [][StartNext]_vars

FireInit ==
    /\ InitRegistry([j \in JobIds |-> StoredJob(TRUE, "s1", "v1")])
    /\ IdleQueue
    /\ IdleTx
    /\ IdleStore

FireSpec == FireInit /\ [][FireNext]_vars

StopSpec == FireInit /\ [][StopNext]_vars

ShutdownSpec == FireInit /\ [][ShutdownNext]_vars /\ WF_vars(StopPoll)

ApiSpec == FireInit /\ [][ApiNext]_vars

ExecInit == IdleSched /\ IdleQueue /\ IdleTx /\ IdleStore

ExecSpec == ExecInit /\ [][ExecNext]_vars

TailSpec == ExecInit /\ [][TailNext]_vars

SessionSpec == ExecInit /\ [][SessionNext]_vars

\* the session specification where every gateway call in flight is answered
\* and every sleep of the poll loop ends
SessionLiveSpec ==
    /\ ExecInit
    /\ [][SessionNext]_vars
    /\ WF_vars(GatewayReplies)
    /\ WF_vars(Wake)

PruneInit == IdleSched /\ InitPrune /\ IdleTx /\ IdleStore

PruneSpec == PruneInit /\ [][PruneNext]_vars

ItemSpec == ExecInit /\ [][ItemNext]_vars

MaintSpec == ExecInit /\ [][MaintNext]_vars

OrderSpec == OrderInit /\ [][OrderNext]_vars

DequeueSpec == DequeueInit /\ [][TxNext]_vars

StateInit == IdleSched /\ IdleQueue /\ IdleTx /\ IdleStore

StateSpec == StateInit /\ [][StateNext]_vars

MigrationInit == IdleSched /\ IdleQueue /\ IdleTx /\ IdleStore

MigrationSpec == MigrationInit /\ [][MigrationNext]_vars

TypeOK ==
    /\ runningJobs \subseteq JobIds
    /\ Len(runs) = Len(calls)
    /\ Len(items) = Len(dequeued)
    /\ Len(items) = Len(failCalls)

----------------------------------------------------------------------------
(***************************************************************************)
(* Properties                                                               *)
(***************************************************************************)

\* the runJob invocation of run r is awaiting its executor
Executing(r) == calls[r].pc = "exec"

ExecutingOf(j) == {r \in DOMAIN runs : runs[r].job_id = j /\ Executing(r)}

\* C1: for every job whose overlap policy is skip, at most one run of the job
\* is in progress (its row has status running) in every reachable state
C1_SkipAtMostOneRunning ==
    \A j \in JobIds :
        jobs[j].overlap_policy = "skip" =>
            Cardinality({r \in ExecutingOf(j) : runs[r].status = "running"}) <= 1

\* C2: a scheduled fire of a skip-policy job that arrives while a run of the
\* job is still in flight invokes no executor and inserts no run row
C2_FiresDuringRunStartNothing ==
    [][\A j \in JobIds :
          (/\ jobs[j].overlap_policy = "skip"
           /\ ExecutingOf(j) # {}
           /\ last'.op = "fire" /\ last'.job = j)
          => (runs' = runs /\ calls' = calls)]_vars

\* C3: the number of runs started and not yet finished never exceeds
\* maxConcurrency, and a runJob call arriving when that many runs are in
\* flight fails with the max-concurrency error
C3_InFlightWithinCap ==
    /\ [](Cardinality({r \in DOMAIN calls : Executing(r)}) <= maxConcurrency)
    /\ [][(/\ Cardinality({r \in DOMAIN calls : Executing(r)}) >= maxConcurrency
           /\ last'.op \in {"fire", "trigger"}
           /\ last'.outcome \in {"started", "threw", "rejected"})
          => (last'.outcome = "rejected" /\ runs' = runs)]_vars

\* C4: no run row is left in status running once its runJob call has
\* returned or thrown
C4_NoRunLeftRunning ==
    \A r \in DOMAIN calls :
        calls[r].pc \in {"returned", "threw"} => runs[r].status \in ExecStatuses

\* C5: under overlap_policy=allow a scheduled fire arriving while the job is
\* running starts a further run when the cap admits it, with a run row of its
\* own, and every closed row holds the result of its own execution
C5_AllowRunsConcurrently ==
    /\ [](\A r \in DOMAIN runs :
            (jobs[runs[r].job_id].overlap_policy = "allow"
             /\ runs[r].status # "running")
            => (calls[r].pc \in {"notify", "returned"}
                /\ runs[r].status = calls[r].result))
    /\ [][\A j \in JobIds :
            (/\ jobs[j].overlap_policy = "allow"
             /\ ExecutingOf(j) # {}
             /\ ~CapReached
             /\ last'.op = "fire" /\ last'.job = j)
            => (/\ Len(runs') = Len(runs) + 1
                /\ SubSeq(runs', 1, Len(runs)) = runs
                /\ runs'[Len(runs')] = [job_id |-> j, status |-> "running",
                                        started_at |-> datetime(now),
                                        trigger |-> "schedule"]
                /\ calls'[Len(runs')].pc = "exec")]_vars

\* two scheduled runs of an allow-policy job overlap, and the later one has
\* been closed with its own result while the earlier one is still executing
C5_Witness ==
    \E r1, r2 \in DOMAIN runs :
        /\ r1 < r2
        /\ runs[r1].job_id = runs[r2].job_id
        /\ jobs[runs[r1].job_id].overlap_policy = "allow"
        /\ runs[r1].trigger = "schedule" /\ runs[r2].trigger = "schedule"
        /\ Executing(r1) /\ runs[r1].status = "running"
        /\ runs[r2].status = "error" /\ calls[r2].result = "error"

RECURSIVE SumSeq(_)
SumSeq(f) == IF f = <<>> THEN 0 ELSE Head(f) + SumSeq(Tail(f))

\* the pending items of queue q
PendingOf(q) ==
    {i \in DOMAIN items : items[i].queue_id = q /\ items[i].status = "pending"}

\* item i comes strictly before item k: higher priority, or equal priority
\* and earlier creation
ComesFirst(i, k) ==
    \/ items[i].priority > items[k].priority
    \/ /\ items[i].priority = items[k].priority
       /\ items[i].created_at < items[k].created_at

Min(a, b) == IF a <= b THEN a ELSE b

\* C11: dequeue(q, n), n a number of items, returns exactly min(n, number of
\* pending items of q) items; they are pending items of q, no pending item
\* of q left behind comes before a returned one, and they are returned in
\* the order of higher priority, then earlier creation
C11_DequeueOrder ==
    [][(qlast'.op = "dequeue" /\ now' = now /\ qlast'.count >= 0)
       => LET ids == qlast'.ids
              P == PendingOf(qlast'.queue)
          IN  /\ Len(ids) = Min(qlast'.count, Cardinality(P))
              /\ Range(ids) \subseteq P
              /\ Cardinality(Range(ids)) = Len(ids)
              /\ \A i \in Range(ids), k \in P \ Range(ids) :
                     ~ComesFirst(k, i)
              /\ \A a, b \in DOMAIN ids :
                     a < b => ~ComesFirst(ids[b], ids[a])]_vars

\* dequeue(q, 2) returned two of three pending items, the later-inserted one
\* first because of its priority, and left behind an item created earlier
\* than one it returned
C11_Witness ==
    /\ qlast.op = "dequeue" /\ qlast.count = 2 /\ Len(qlast.ids) = 2
    /\ qlast.ids[1] > qlast.ids[2]
    /\ \E k \in PendingOf(qlast.queue) :
          items[k].created_at < items[qlast.ids[1]].created_at

\* C12: a dequeue call that returns changes exactly the items it returns,
\* which were pending items of its queue: each becomes processing with
\* attempts incremented by one, and every other item is unchanged; a dequeue
\* call that fails changes no item
C12_DequeueFrame ==
    [][\A c \in Clients :
          (tx[c].pc = "selected" /\ tx'[c].pc = "idle")
          => IF qlast'.op = "dequeue"
             THEN /\ Range(qlast'.ids) \subseteq PendingOf("q")
                  /\ DOMAIN items' = DOMAIN items
                  /\ \A i \in DOMAIN items :
                        items'[i] =
                          IF i \in Range(qlast'.ids)
                          THEN [items[i] EXCEPT
                                  !.status = "processing",
                                  !.attempts = items[i].attempts + 1,
                                  !.claimed_at = now]
                          ELSE items[i]
             ELSE items' = items]_vars

\* dequeue('q', 1) returned one item and left a pending item of q, while an
\* item of another queue stays pending
C12_Witness ==
    /\ qlast.op = "dequeue" /\ qlast.count = 1 /\ Len(qlast.ids) = 1
    /\ items[qlast.ids[1]].status = "processing"
    /\ PendingOf("q") # {}
    /\ PendingOf("other") # {}

\* job j has no stored row, or its row is disabled
MissingOrDisabled(j) == j \notin DOMAIN jobs \/ ~jobs[j].enabled

\* C13: a scheduled fire that starts a run dispatches the job row as it is
\* stored at the time of the fire, whatever the row was when the cron handle
\* was registered
C13_FireDispatchesStoredRow ==
    [][(last'.op = "fire" /\ Len(runs') = Len(runs) + 1)
       => /\ last'.job \in DOMAIN jobs
          /\ calls'[Len(runs')].job = jobs[last'.job]
          /\ runs'[Len(runs')].job_id = last'.job]_vars

\* a run was dispatched with script v2 by a handle registered when the
\* script was v1, with no reconcile since the edit
C13_Witness ==
    /\ last.op = "fire" /\ last.outcome = "started"
    /\ ~reconciled.current
    /\ last.job \in DOMAIN crons
    /\ crons[last.job].job.script = "v1"
    /\ calls[Len(calls)].job.script = "v2"
    /\ runs[Len(runs)].job_id = last.job

\* C14: a cron fire for a job whose row is missing or disabled at the time
\* of the fire inserts no run row and invokes no executor
C14_NoRunForMissingOrDisabled ==
    [][(last'.op = "fire" /\ MissingOrDisabled(last'.job))
       => UNCHANGED <<runs, calls, runningJobs>>]_vars

\* the handle of a job disabled since the last reconcile is still registered
\* and has fired, and the job has no run
C14_Witness ==
    /\ last.op = "fire" /\ last.outcome = "norow"
    /\ last.job \in DOMAIN jobs /\ ~jobs[last.job].enabled
    /\ last.job \in DOMAIN crons /\ crons[last.job] \in live
    /\ \A r \in DOMAIN runs : runs[r].job_id # last.job

\* the enabled jobs whose schedule parses / does not parse
EnabledValid ==
    {j \in DOMAIN jobs : jobs[j].enabled /\ Valid(jobs[j].schedule)}
EnabledInvalid ==
    {j \in DOMAIN jobs : jobs[j].enabled /\ ~Valid(jobs[j].schedule)}

\* C15: when reconcile() has returned and no jobs row has changed since, the
\* registered ids are the enabled jobs with a valid schedule, the schedule
\* remembered for each is the job's stored schedule, and the handles not
\* stopped are exactly the registered ones
C15_ReconcilePost ==
    reconciled.current
    => /\ DOMAIN crons = EnabledValid
       /\ DOMAIN cronSchedules = DOMAIN crons
       /\ \A j \in DOMAIN crons :
             /\ cronSchedules[j] = jobs[j].schedule
             /\ crons[j].id = j
             /\ crons[j].job.schedule = jobs[j].schedule
       /\ live = Range(crons)

\* a reconcile replaced the handle of a job whose schedule was edited from
\* s1 to s2 and removed the handle of a job that was disabled
C15_Witness ==
    /\ reconciled.current
    /\ "a" \in DOMAIN crons /\ cronSchedules["a"] = "s2"
    /\ Cardinality(live) = 1
    /\ "b" \in DOMAIN jobs /\ ~jobs["b"].enabled
    /\ Valid(jobs["b"].schedule)

\* C16: reconcile() returns whatever the schedules are; when it has returned
\* and no jobs row has changed since, the enabled jobs whose schedule does
\* not parse are exactly the returned failedIds and are in the failed set,
\* and every enabled job with a valid schedule is registered; a registered
\* job is never in the failed set
C16_FailedRegistrations ==
    /\ DOMAIN crons \cap failedRegistrations = {}
    /\ reconciled.current
       => /\ Range(reconciled.failedIds) = EnabledInvalid
          /\ Len(reconciled.failedIds) = Cardinality(EnabledInvalid)
          /\ EnabledInvalid \subseteq failedRegistrations
          /\ EnabledValid \subseteq DOMAIN crons
          /\ reconciled.totalEnabled
               = Cardinality(EnabledValid) + Cardinality(EnabledInvalid)

\* a reconcile call over two enabled jobs failed to register job a, whose
\* schedule does not parse, and job b is registered
C16_Witness ==
    /\ reconciled.current
    /\ reconciled.failedIds = <<"a">>
    /\ "a" \in failedRegistrations
    /\ "b" \in DOMAIN crons
    /\ reconciled.totalEnabled = 2

\* C6: concurrent dequeue calls never return the same item id, and the
\* number of items they return equals the number of items that moved from
\* pending to processing
C6_DequeueAtomic ==
    /\ \A i \in DOMAIN items : dequeued[i] <= 1
    /\ SumSeq(dequeued)
         = Cardinality({i \in DOMAIN items : items[i].status = "processing"})

\* a dequeue call selected an item that a concurrent call then claimed and
\* returned
C6_Witness ==
    \E c \in Clients :
        /\ tx[c].pc = "selected"
        /\ tx[c].stale
        /\ \E i \in Range(tx[c].rows) :
              dequeued[i] = 1 /\ items[i].status = "processing"

ScopeStatuses(scope) ==
    IF scope = "all" THEN {"pending", "processing", "done"}
    ELSE {"pending", "processing"}

\* C8: enqueue of a payload with dedup key K returns -1 and inserts nothing
\* if and only if the queue holds an item with key K whose status is in the
\* queue's dedup scope; otherwise it inserts one pending item and returns
\* its id
C8_DedupIff ==
    [][(/\ qlast'.op = "enqueue"
        /\ qlast'.payload.threadId # Absent
        /\ queues[qlast'.queue].dedup_scope \in {"pending", "all"})
       => LET q == qlast'.queue
              K == qlast'.payload.threadId.text
              held == \E i \in DOMAIN items :
                         /\ items[i].queue_id = q
                         /\ items[i].dedup_key = K
                         /\ items[i].status
                              \in ScopeStatuses(queues[q].dedup_scope)
          IN  IF held
              THEN qlast'.id = -1 /\ items' = items
              ELSE /\ Len(items') = Len(items) + 1
                   /\ SubSeq(items', 1, Len(items)) = items
                   /\ items'[Len(items')].status = "pending"
                   /\ items'[Len(items')].dedup_key = K
                   /\ qlast'.id = Len(items')]_vars

\* the status changes of the queue item lifecycle and the call that makes
\* each of them
Lifecycle ==
    {<<"pending", "processing", "dequeue">>,
     <<"processing", "done", "done">>,
     <<"processing", "failed", "fail">>,
     <<"processing", "pending", "fail">>}

\* C9: an item's status changes only along the lifecycle, and done and fail
\* never change an item that is not in processing
C9_Lifecycle ==
    [][\A i \in DOMAIN items :
          /\ items'[i].status # items[i].status
             => <<items[i].status, items'[i].status, qlast'.op>> \in Lifecycle
          /\ (qlast'.op \in {"done", "fail"} /\ qlast'.id = i
              /\ items[i].status # "processing")
             => items'[i] = items[i]]_vars

\* C10: attempts never decreases and changes only by +1 when dequeue claims
\* the item; fail moves the item to failed (finished_at set) when attempts >=
\* max_attempts and to pending otherwise, records the error, leaves attempts
\* unchanged, and does nothing when no item has the id
C10_AttemptsAndFail ==
    [][/\ \A i \in DOMAIN items :
             /\ items'[i].attempts >= items[i].attempts
             /\ items'[i].attempts # items[i].attempts
                => /\ qlast'.op = "dequeue"
                   /\ i \in Range(qlast'.ids)
                   /\ items'[i].attempts = items[i].attempts + 1
       /\ qlast'.op = "fail"
          => IF qlast'.id \in DOMAIN items
             THEN LET i == qlast'.id
                      dead == items[i].attempts >= items[i].max_attempts
                  IN  items' = [items EXCEPT
                         ![i].status = IF dead THEN "failed" ELSE "pending",
                         ![i].finished_at = IF dead THEN now ELSE @,
                         ![i].error = qlast'.error]
             ELSE items' = items]_vars

\* an item went through a retry and was then dead-lettered by fail(id, "e1")
C10_Witness ==
    \E i \in DOMAIN items :
        /\ qlast.op = "fail" /\ qlast.id = i /\ qlast.error = "e1"
        /\ items[i].attempts = 2
        /\ items[i].status = "failed"
        /\ items[i].error = "e1"
        /\ items[i].finished_at # NoTime

\* C17: a getState call on a key that has been set returns the value of the
\* most recent setState call exactly when that call gave no TTL or its
\* expiry (the time of the call plus the TTL) has not passed, and returns
\* null otherwise
C17_GetReturnsLiveValue ==
    [][(/\ slast'.op = "get"
        /\ now' = now
        /\ slast'.key \in DOMAIN lastSet)
       => LET s == lastSet[slast'.key]
              unexpired == s.expiry = NoTime \/ now <= s.expiry
          IN  slast'.result = IF unexpired THEN s.value ELSE NULL]_vars

\* every version has its row in schema_version
Migrated == Range(schema_version) = Versions

\* C18: a runMigrations call on a store whose schema_version holds every
\* version executes no migration, leaves the schema, the rows and
\* schema_version as they were and returns; schema_version never holds a
\* version twice
C18_MigrateIdempotent ==
    [][/\ \A i, k \in DOMAIN schema_version' :
              schema_version'[i] = schema_version'[k] => i = k
       /\ (Migrated /\ mig' # mig)
          => /\ store' = store
             /\ schema_version' = schema_version
             /\ mig'.executed = mig.executed
             /\ mig'.pc = "idle"
             /\ mig'.outcome = "returned"
             /\ mig'.applied = <<>>]_vars

\* a runMigrations call on a migrated store that holds a jobs row and the
\* seeded queue definitions returned without applying a version
C18_Witness ==
    /\ Migrated
    /\ mig.pc = "idle"
    /\ mig.outcome = "returned"
    /\ mig.applied = <<>>
    /\ <<"jobs", "test-job">> \in store.rows
    /\ \A id \in Seeds : <<"queues", id>> \in store.rows

\* the schema after the three scripts ran in order on an empty database
FinalSchema ==
    RunScript(EmptyStore,
              MIGRATION_001 \o MIGRATION_002 \o MIGRATION_003, 1).objs

\* C19: schema_version is filled in ascending order, and every runMigrations
\* call that ends, also one that follows an interrupted call, returns with
\* every version recorded once and the schema of the three scripts
C19_InterruptedRunRecovers ==
    /\ \A i, k \in DOMAIN schema_version :
           i < k => schema_version[i] < schema_version[k]
    /\ (mig.pc = "idle" /\ mig.outcome \in {"returned", "threw"})
       => /\ mig.outcome = "returned"
          /\ schema_version = <<1, 2, 3>>
          /\ store.objs = FinalSchema

C22_StopPreventsFires ==
    [][stopCalled'
       => /\ live' = {}
          /\ crons' = <<>>
          /\ Len(runs') > Len(runs)
             => runs'[Len(runs')].trigger # "schedule"
          /\ \A r \in DOMAIN calls :
                 calls[r].pc = "exec" /\ calls'[r].pc # "exec"
                     => last'.op = "executed"]_vars

\* C23: when an enable or disable request for a stored job has completed,
\* the job has a live cron handle exactly when it is enabled and its
\* schedule is valid
C23_EnableReconciles ==
    [][(/\ last' # last
        /\ last'.op \in {"enable", "disable"}
        /\ last'.outcome = "ok")
       => LET j == last'.job
          IN  (j \in DOMAIN crons' /\ crons'[j] \in live')
                  <=> (jobs'[j].enabled /\ Valid(jobs'[j].schedule))]_vars

\* the promise of executeJob is settled as C24 states
Settled ==
    LET r == promise[1]
        fired == proc.timer = "fired"
    IN  /\ r.status = "timeout" <=> fired
        /\ r.status = "timeout" => r.exitCode = <<>>
        /\ proc.timeoutMs = 0 => r.status # "timeout"
        /\ (~fired /\ proc.spawnFailed)
           => r.status = "error" /\ r.exitCode = <<>>
        /\ (~fired /\ ~proc.spawnFailed)
           => /\ r.status = "ok" <=> proc.exitCode = <<<<0>>>>
              /\ r.status # "ok"
                 => r.status = "error" /\ <<r.exitCode>> = proc.exitCode

NonBlank(line) == trim(line) # <<>>

\* the last n elements of a sequence, all of them when it has fewer
LastN(seq, n) ==
    SubSeq(seq, IF Len(seq) > n THEN Len(seq) - n + 1 ELSE 1, Len(seq))

\* C25: the stored stdout tail of a finished run holds at most maxLines
\* lines, and they are the last maxLines non-blank lines of everything the
\* child wrote, in order, however the output was cut into chunks
C25_TailIsLastLines ==
    promise # <<>>
    => /\ Len(stdoutBuffer) <= maxLines
       /\ promise[1].stdoutTail =
              join(LastN(SelectSeq(split(stdout), NonBlank), maxLines))

IsResult(line) == ResultOf(trim(line)) # <<>>

\* C26: when a run did not time out and its stdout holds JR_RESULT lines
\* with a valid JSON suffix, tokens and resultMeta of the result are those
\* of the last such line, whatever follows it
C26_LastResultWins ==
    (promise # <<>> /\ promise[1].status # "timeout" /\ ~proc.spawnFailed)
    => LET valid == SelectSeq(split(stdout), IsResult)
       IN  valid # <<>>
           => LET data == ResultOf(trim(valid[Len(valid)]))[1]
              IN  /\ promise[1].tokens = data.tokens
                  /\ promise[1].resultMeta = data.meta

\* the positions of the gateway log that hold the event e
LogAt(e) == {i \in 1..Len(gatewayLog) : gatewayLog[i] = e}

\* C27: executeSession follows the gateway protocol in order: spawnSession is
\* called at most once and never for a script extension, isSessionComplete
\* only after spawnSession returned, getSessionInfo only after
\* isSessionComplete returned true, and status ok is returned only after
\* that, with no tokens when there is no session info.
C27_ProtocolOrder ==
    /\ Cardinality(LogAt("spawnSession")) <= 1
    /\ toLowerCase(session.script.ext) \in SCRIPT_EXTENSIONS
           => LogAt("spawnSession") = {}
    /\ \A i \in LogAt("isSessionComplete") :
           \E j \in LogAt("spawnSession:ok") : j < i
    /\ \A i \in LogAt("getSessionInfo") :
           \E j \in LogAt("isSessionComplete:true") : j < i
    /\ \A k \in 1..Len(sessionResult) :
           sessionResult[k].status = "ok" =>
               /\ \E i \in LogAt("getSessionInfo") :
                      i < Len(gatewayLog)
               /\ LogAt("getSessionInfo:none") # {}
                      => sessionResult[k].tokens = <<>>

\* C27 witness: a session that was polled twice ends ok without session info
C27_Witness ==
    /\ sessionResult # <<>>
    /\ sessionResult[1].status = "ok"
    /\ sessionResult[1].tokens = <<>>
    /\ LogAt("isSessionComplete:false") # {}
    /\ LogAt("getSessionInfo:none") # {}

\* C28: executeSession returns status timeout exactly when polling went on
\* for timeoutMs without the session completing; every other failure returns
\* status error with the error's message in stderrTail.
C28_TimeoutOnlyFromPolling ==
    \A k \in 1..Len(sessionResult) :
        /\ sessionResult[k].status = "timeout" <=> session.expired
        /\ session.caught # <<>> /\ ~session.expired
               => /\ sessionResult[k].status = "error"
                  /\ session.caught[1].instanceofError
                         => sessionResult[k].stderrTail =
                                session.caught[1].message

\* C29: a maintenance sweep deletes a queue item exactly when its status is
\* done or failed and its finished_at is older than the retention of its
\* queue (retention_days of the queue, 7 days without a definition); pending
\* and processing items are never deleted.
C29_SweepDeletesExactly ==
    [][sweep' # sweep =>
          \A i \in DOMAIN items :
              i \notin DOMAIN items'
                  <=> /\ items[i].status \in {"done", "failed"}
                      /\ items[i].finished_at # NoTime
                      /\ items[i].finished_at +
                             (IF items[i].queue_id \in DOMAIN queues
                              THEN queues[items[i].queue_id]
                                       .retention_days[1]
                              ELSE 7) * DayLen < now]_vars

\* C30: every state item has a parent state row, and a setItem on a key
\* without a state row creates that row with a null value.
C30_ItemsHaveParent ==
    /\ [](\A p \in DOMAIN state_items : p[1] \in DOMAIN state)
    /\ [][\A k \in StateKeys :
            (/\ clast' # clast
             /\ clast'.op = "setItem" /\ clast'.key = k
             /\ k \notin DOMAIN state)
            => (/\ k \in DOMAIN state'
                /\ state'[k].value = NULL
                /\ state'[k].expires_at = <<>>)]_vars

\* C30 witness: a state row with an expiry in the past still has its item
\* after a maintenance sweep and after a deleteState call on it
C30_Witness ==
    /\ sweep # <<>>
    /\ sweep[1].threw
    /\ slast.op = "delete"
    /\ \E p \in DOMAIN state_items : p[1] \in ExpiredState(state, now)

\* the ids of the enabled jobs whose schedule does not parse
EnabledInvalidIds == {j \in DOMAIN jobs : jobs[j].enabled /\ ~Valid(jobs[j].schedule)}

\* C31: start() dispatches exactly one summary failure notification, naming
\* the failed job ids, when a registration failed during its reconcile and a
\* default failure channel is configured, and none otherwise; no other step
\* dispatches one.
C31_StartupNotice ==
    [][IF ~reconcileInterval /\ reconcileInterval'
       THEN IF EnabledInvalidIds # {} /\ defaultOnFailure
            THEN /\ Len(notified') = Len(notified) + 1
                 /\ SubSeq(notified', 1, Len(notified)) = notified
                 /\ Range(notified'[Len(notified')].failed)
                        = EnabledInvalidIds
            ELSE notified' = notified
       ELSE notified' = notified]_vars

\* C31 witness: the scheduler was started with a failed registration and
\* dispatched its summary, and its timer has reconciled a still failing
\* table since
C31_Witness ==
    /\ Len(notified) = 1
    /\ reconcileInterval
    /\ reconciled.current
    /\ Len(reconciled.failedIds) = 2
    /\ Len(notified[1].failed) = 1

\* C32: every admitted run goes through its steps in order: id in the
\* running set and run row inserted with status running and the caller's
\* trigger, executor invoked, run row closed, notification dispatched, id
\* removed; the id is in the running set from the insertion of the run row
\* until the notification has been dispatched.
C32_RunStepsInOrder ==
    \A r \in DOMAIN runs :
        /\ runs[r].trigger \in {"schedule", "manual"}
        /\ calls[r].pc \in {"exec", "notify", "returned"}
        /\ calls[r].pc = "exec"
               => runs[r].status = "running" /\ runs[r].job_id \in runningJobs
        /\ calls[r].pc = "notify"
               => /\ runs[r].status = calls[r].result
                  /\ calls[r].sent # <<>>
                  /\ runs[r].job_id \in runningJobs
        /\ calls[r].pc = "returned"
               => /\ runs[r].status = calls[r].result
                  /\ calls[r].sent =
                         NotificationFor(calls[r].job, calls[r].result)

\* the jobs that have at least one run in flight
InFlightJobs ==
    {runs[r].job_id : r \in {x \in DOMAIN runs :
                                calls[x].pc \in {"exec", "notify"}}}

\* C36: getRunningJobs() returns exactly the ids of the jobs that have at
\* least one run in flight, also when runs of the same job overlap.
C36_RunningIsInFlight == runningJobs = InFlightJobs

\* C33: stop() always completes; it returns when a poll finds the running
\* set empty and otherwise once the grace period has elapsed, within one
\* poll period, even if a run never finishes; once it has returned the
\* reconcile timer is cancelled.
C33_StopCompletes ==
    /\ (stopper.pc = "waiting") ~> (stopper.pc = "returned")
    /\ [](stopper.pc = "waiting" => stopper.polls < GracePolls)
    /\ [](stopper.pc = "returned"
             => /\ stopper.empty \/ stopper.polls = GracePolls
                /\ ~reconcileInterval)

\* C33 witness: stop() has returned at its deadline while a run that never
\* finished is still in flight
C33_Witness ==
    /\ stopper.pc = "returned"
    /\ stopper.polls = GracePolls
    /\ ~stopper.empty
    /\ runningJobs # {}

\* the clock tick an expires_at text stands for
ExpiryTick(text) == text.date * DayLen + text.time

\* C34: every maintenance tick performs all three sweeps; after it no state
\* row whose expires_at lies in the past remains, and the state rows without
\* expiry or with a future expiry are unchanged, also when an expired row is
\* the parent of state items.
C34_SweepCleansExpired ==
    [][sweep' # sweep =>
          /\ ~sweep'[1].threw
          /\ \A k \in DOMAIN state' :
                 \/ state'[k].expires_at = <<>>
                 \/ ExpiryTick(state'[k].expires_at[1]) >= now
          /\ \A k \in DOMAIN state :
                 (\/ state[k].expires_at = <<>>
                  \/ ExpiryTick(state[k].expires_at[1]) > now)
                     => k \in DOMAIN state' /\ state'[k] = state[k]]_vars

\* C40: once stop() of the maintenance controller has returned, no periodic
\* sweep runs until start() is called again (the controller's interval is
\* null exactly from a stop() to the next start()), whatever start, stop and
\* runNow calls came before.
C40_NoSweepAfterStop ==
    [][(sweep' # sweep /\ sweep'[1].by = "timer") => interval # <<>>]_vars

\* the gateway log holds no failed call
NoGatewayThrow ==
    /\ LogAt("spawnSession:throw") = {}
    /\ LogAt("isSessionComplete:throw") = {}
    /\ LogAt("getSessionInfo:throw") = {}

\* C35: executeSession never throws and, when every gateway call returns or
\* fails, always ends with a result of status ok, error or timeout; a poll
\* is started only while less than timeoutMs has elapsed, a session that
\* was spawned and never reported complete ends with status timeout once
\* timeoutMs has elapsed, and no gateway call is made after the result.
C35_SessionReturns ==
    /\ [](session.pc = "done" =>
              /\ Len(sessionResult) = 1
              /\ sessionResult[1].status \in {"ok", "error", "timeout"})
    /\ [](session.pc # "done" => sessionResult = <<>>)
    /\ (session.pc # "none") ~> (session.pc = "done")
    /\ [](session.pc = "polling" => session.elapsed < session.timeoutMs)
    /\ [](/\ session.pc = "done"
          /\ LogAt("spawnSession:ok") # {}
          /\ NoGatewayThrow
          /\ LogAt("isSessionComplete:true") = {}
          => /\ sessionResult[1].status = "timeout"
             /\ session.elapsed >= session.timeoutMs
             /\ gatewayLog[Len(gatewayLog)] # "isSessionComplete")
    /\ [][session.pc = "done" => gatewayLog' = gatewayLog]_vars

\* C35 witness: a session with a positive timeout was polled, never reported
\* complete and ended with status timeout
C35_Witness ==
    /\ session.pc = "done"
    /\ session.timeoutMs > 0
    /\ NoGatewayThrow
    /\ LogAt("isSessionComplete:false") # {}
    /\ LogAt("isSessionComplete:true") = {}
    /\ sessionResult[1].status = "timeout"

\* the items of one queue that share a dedup key and are in a status the
\* queue's dedup scope looks at
SameKeyInScope(i, k) ==
    LET q == items[i].queue_id
        dedupScope == IF Truthy(queues[q].dedup_scope)
                      THEN queues[q].dedup_scope ELSE "pending"
    IN  /\ items[k].queue_id = q
        /\ items[i].dedup_key # NULL
        /\ items[k].dedup_key = items[i].dedup_key
        /\ items[i].status \in statusFilter(dedupScope)
        /\ items[k].status \in statusFilter(dedupScope)

\* C37: for a queue with dedup scope pending at most one item per dedup key
\* is pending or processing, and for scope all at most one per key is
\* pending, processing or done, after any enqueue, dequeue, done and fail
\* calls, enqueues of one key by different clients of the store included.
C37_OnePerDedupKey ==
    \A i, k \in DOMAIN items : SameKeyInScope(i, k) => i = k

\* what one more reconcile() in the current state does to the registry and
\* returns
ReconcileAgain ==
    AddLoop([reg |-> RemoveLoop(Registry, DOMAIN crons),
             failedIds |-> <<>>], 1)

\* C38: reconcile() is idempotent: when reconcile() has returned and no jobs
\* row has changed since, one more reconcile() leaves the registered ids,
\* the remembered schedules, the failed set and the handles as they are,
\* creates no handle and stops none, and returns the same totalEnabled and
\* failedIds.
C38_ReconcileIdempotent ==
    reconciled.current
    => /\ ReconcileAgain.reg = Registry
       /\ ReconcileAgain.reg.made = 0
       /\ ReconcileAgain.reg.stopped = 0
       /\ ReconcileAgain.failedIds = reconciled.failedIds
       /\ Cardinality(enabledById) = reconciled.totalEnabled

\* C38 witness: reconcile has returned over a registered job b and an
\* enabled job a whose schedule does not parse
C38_Witness ==
    /\ reconciled.current
    /\ DOMAIN crons = {"b"}
    /\ failedRegistrations = {"a"}
    /\ "a" \in enabledById
    /\ reconciled.totalEnabled = 2

\* C39: when reconcile() has returned and no jobs row has changed since, the
\* failed set holds exactly the enabled jobs whose schedule does not parse:
\* no job that has been disabled or deleted, and no job with an active
\* handle.
C39_FailedSetExact ==
    /\ DOMAIN crons \cap failedRegistrations = {}
    /\ reconciled.current => failedRegistrations = EnabledInvalid
====
